---- MODULE Spec2Model ----
(***************************************************************************)
(* Model of the Xtream manager (src/main.py, src/xtream.py): the endpoint  *)
(* generator, the probe engine with its diagnostics sink, and the M3U      *)
(* parser.  Text is a sequence of one-character strings, so that strip,    *)
(* rstrip, startswith and concatenation are computed as the code computes  *)
(* them.                                                                   *)
(***************************************************************************)
EXTENDS Integers, Sequences, FiniteSets, TLC

VARIABLES
    address,    \* generate_endpoints: the base_server argument
    uniq,       \* generate_endpoints: the returned list
    epc,        \* generate_endpoints: "call" before the call, "done" after
    m3u_text,   \* parse_m3u_to_json: the text argument
    lines,      \* parse_m3u_to_json: the split lines
    i,          \* parse_m3u_to_json: index of the outer loop (1-based here)
    channels,   \* parse_m3u_to_json: the records collected so far
    ppc,        \* parse_m3u_to_json: "call", "loop" or "done"
    HAS_CLOUDSCRAPER, \* module flag set at import
    fn,         \* the probe running: "auth" (fetch_player_api_robust) or "playlist"
    server_url, \* probe: the address argument
    endpoints,  \* probe: generate_endpoints(server_url)
    taken,      \* probe: how many candidates the for loop has taken
    tried,      \* fetch_player_api_robust: the tried list
    responses,  \* the network: what each request of the probe was answered
    disk,       \* the file system under DATA_DIR: "ok", "readonly" or "nodirs"
    now,        \* int(time.time()) at its last reading
    files,      \* content of DEBUG_DIR
    debug_calls,\* calls of save_debug_response made so far
    pc,         \* probe: "call", "loop", "done" (returned) or "raised"
    result,     \* probe: the value returned
    heap,       \* the list objects of a playlist session, by reference (index)
    arg_field,  \* filter_channels: the field argument
    arg_keyword,\* filter_channels: the keyword argument
    filtered,   \* reference of the list filter_channels returned, 0 before the call
    written,    \* reference of the list given to create_m3u_from_channels, 0 before
    out_text,   \* the text create_m3u_from_channels wrote to out_path
    reparsed,   \* parse_m3u_to_json of the written text
    cpc,        \* playlist session: "call", "parsed", "filtered", "built", "failed", "done"
    rq_endpoint,\* request_with_client: the endpoint argument
    rq_stream,  \* request_with_client: the stream argument
    rq_calls,   \* request_with_client: the client calls made, with their outcomes
    rq_return,  \* request_with_client: the tuple returned
    rq_pc,      \* request_with_client: "call", "scraper", "requests", "done", "raised"
    response_text, \* save_debug_response called alone: the body argument
    file_body,  \* the body part of each file of DEBUG_DIR, by path
    sink_return,\* save_debug_response called alone: what the call returned
    spc,        \* save_debug_response called alone: "call", "done" or "raised"
    servers_file, \* SERVERS_FILE: missing, not JSON, or JSON with the value it decodes to
    store_fs,   \* DATA_DIR: "ok", "nodirs", "unreadable", "unwritable" or "full"
    st_op,      \* the store operation running: "load" or "save"
    st_arg,     \* save_servers: the servers argument
    st_return,  \* what the store operation returned
    stpc,       \* store operation: "call", "done" or "raised"
    m_pc,       \* each tool process: "idle", "menu", "loaded" (after load_servers), "done", "raised"
    m_op,       \* each tool process: the menu operation it runs
    m_idx,      \* each tool process: the idx argument of its operation
    m_servers,  \* each tool process: servers as load_servers returned it
    m_new,      \* add_server: the server record built from the inputs
    m_res,      \* each tool process: what the probes of its operation returned
    clock,      \* int(time.time()) at its last reading by a menu operation
    last_done,  \* the process whose operation ended last, and how it ended
    started     \* menu operations started so far

endpointVars == <<address, uniq, epc>>
parseVars == <<m3u_text, lines, i, channels, ppc>>
probeVars == <<HAS_CLOUDSCRAPER, fn, server_url, endpoints, taken, tried, responses,
               disk, now, files, debug_calls, pc, result>>
codecVars == <<heap, arg_field, arg_keyword, filtered, written, out_text, reparsed, cpc>>
requestVars == <<rq_endpoint, rq_stream, rq_calls, rq_return, rq_pc>>
sinkVars == <<response_text, file_body, sink_return, spc>>
menuVars == <<m_pc, m_op, m_idx, m_servers, m_new, m_res, clock, last_done, started>>
storeVars == <<servers_file, store_fs, st_op, st_arg, st_return, stpc, menuVars>>
toolVars == <<codecVars, requestVars, sinkVars, storeVars>>
vars == <<endpointVars, parseVars, probeVars, toolVars>>

-----------------------------------------------------------------------------
(* Bounds of the model *)

MaxHostLen == 2
MaxJunkLen == 2
MaxLines == 3
MaxClock == 1
MaxAnswers == 2
MaxRuns == 2
MaxServers == 2
MaxOps == 2
MaxPieces == 3
MaxRecords == 2
MaxTime == 1

-----------------------------------------------------------------------------
(* The parts of the state a specification does not exercise *)

EndpointsIdle ==
    /\ address = <<>>
    /\ uniq = <<>>
    /\ epc = "idle"

ParseIdle ==
    /\ m3u_text = <<>>
    /\ lines = <<>>
    /\ i = 1
    /\ channels = <<>>
    /\ ppc = "idle"

NoResult == [ok |-> FALSE, endpoint |-> <<>>, client |-> "", tried |-> <<>>]

CodecIdle ==
    /\ heap = <<>>
    /\ arg_field = <<>>
    /\ arg_keyword = <<>>
    /\ filtered = 0
    /\ written = 0
    /\ out_text = <<>>
    /\ reparsed = <<>>
    /\ cpc = "idle"

NoReturn == [resp |-> [kind |-> "none", status |-> 0, by |-> ""], client |-> ""]

RequestIdle ==
    /\ rq_endpoint = <<>>
    /\ rq_stream = FALSE
    /\ rq_calls = <<>>
    /\ rq_return = NoReturn
    /\ rq_pc = "idle"

SinkIdle ==
    /\ response_text = <<>>
    /\ file_body = <<>>
    /\ sink_return = [kind |-> "none yet", path |-> <<>>]
    /\ spc = "idle"

\* SERVERS_FILE does not exist
Missing == [state |-> "missing", data |-> <<>>]

NoStoreReturn == [kind |-> "none yet", value |-> <<>>]

\* the tool processes that share SERVERS_FILE
Procs == {1, 2}

\* Python's None in last_endpoint and last_client, and in last_check
None == "None"
Never == -1

\* lines 517-528: the record add_server builds
NewServer(name, url, t) ==
    [name |-> IF name = "" THEN url ELSE name, server_url |-> url,
     username |-> "u", password |-> "p", created_at |-> t, last_check |-> Never,
     last_endpoint |-> None, last_client |-> None,
     user_info |-> "{}", server_info |-> "{}"]

NoServer == NewServer("", "", 0)

\* no operation has ended
NoneDone == [proc |-> 0, ended |-> "none"]

\* no menu operation was started
MenuIdle ==
    /\ m_pc = [p \in Procs |-> "idle"]
    /\ m_op = [p \in Procs |-> "none"]
    /\ m_idx = [p \in Procs |-> 0]
    /\ m_servers = [p \in Procs |-> <<>>]
    /\ m_new = [p \in Procs |-> NoServer]
    /\ m_res = [p \in Procs |-> <<>>]
    /\ clock = 0
    /\ last_done = NoneDone
    /\ started = 0

StoreIdle ==
    /\ MenuIdle
    /\ servers_file = Missing
    /\ store_fs = "ok"
    /\ st_op = "none"
    /\ st_arg = <<>>
    /\ st_return = NoStoreReturn
    /\ stpc = "idle"

ToolsIdle == CodecIdle /\ RequestIdle /\ SinkIdle /\ StoreIdle

\* no probe is running
ProbeStopped ==
    /\ fn = "none"
    /\ server_url = <<>>
    /\ endpoints = <<>>
    /\ taken = 0
    /\ tried = <<>>
    /\ responses = <<>>
    /\ pc = "idle"
    /\ result = NoResult

\* nothing was given to the diagnostics sink
SinkEmpty ==
    /\ disk = "ok"
    /\ now = 0
    /\ files = {}
    /\ debug_calls = <<>>

ProbeIdle ==
    /\ HAS_CLOUDSCRAPER = FALSE
    /\ fn = "none"
    /\ server_url = <<>>
    /\ endpoints = <<>>
    /\ taken = 0
    /\ tried = <<>>
    /\ responses = <<>>
    /\ disk = "ok"
    /\ now = 0
    /\ files = {}
    /\ debug_calls = <<>>
    /\ pc = "idle"
    /\ result = NoResult

-----------------------------------------------------------------------------
(* Python str helpers over sequences of characters *)

\* str.startswith(prefix)
StartsWith(s, prefix) ==
    /\ Len(s) >= Len(prefix)
    /\ SubSeq(s, 1, Len(prefix)) = prefix

\* c in s
Contains(s, c) == \E k \in 1..Len(s) : s[k] = c

\* str.rstrip('/') : drop every trailing occurrence of the character
RECURSIVE RStripChar(_, _)
RStripChar(s, c) ==
    IF Len(s) > 0 /\ s[Len(s)] = c
    THEN RStripChar(SubSeq(s, 1, Len(s) - 1), c)
    ELSE s

RECURSIVE LStripChar(_, _)
LStripChar(s, c) ==
    IF Len(s) > 0 /\ s[1] = c
    THEN LStripChar(SubSeq(s, 2, Len(s)), c)
    ELSE s

\* str.strip() : whitespace removed at both ends (the model's whitespace is " ")
Strip(s) == RStripChar(LStripChar(s, " "), " ")

\* every sequence over S of length lo..hi
SeqsUpTo(S, lo, hi) == UNION { [1..n -> S] : n \in lo..hi }

-----------------------------------------------------------------------------
(* generate_endpoints *)

HTTP == <<"h", "t", "t", "p">>
HTTPS == <<"h", "t", "t", "p", "s">>
SchemeSep == <<":", "/", "/">>

\* common_ports, main.py line 146
CommonPorts ==
    << <<>>,
       <<":", "8", "0">>,
       <<":", "8", "0", "8", "0">>,
       <<":", "8", "0", "0", "0">>,
       <<":", "8", "0", "8", "1">>,
       <<":", "8", "4", "4", "3">>,
       <<":", "4", "4", "3">> >>

\* s = base_server.strip(); s = s.rstrip('/')
TrimAddress(base_server) == RStripChar(Strip(base_server), "/")

HasScheme(s) == StartsWith(s, HTTP \o SchemeSep) \/ StartsWith(s, HTTPS \o SchemeSep)

\* proto, rest = s.split("://", 1) for an s that starts with http:// or https://
SplitProto(s) == IF StartsWith(s, HTTPS \o SchemeSep) THEN HTTPS ELSE HTTP
SplitRest(s) == SubSeq(s, Len(SplitProto(s)) + Len(SchemeSep) + 1, Len(s))

HostOf(s) == IF HasScheme(s) THEN SplitRest(s) ELSE s

\* a generator that ignores which scheme the address gave
SchemesOf_HttpFirst(s) == <<HTTP, HTTPS>>

SchemesOf(s) ==
    IF HasScheme(s)
    THEN <<SplitProto(s), IF SplitProto(s) = HTTP THEN HTTPS ELSE HTTP>>
    ELSE <<HTTP, HTTPS>>

\* port detection without the exemption of bracketed hosts
PortsFor_AnyColon(host) ==
    IF Contains(host, ":") THEN << <<>> >> ELSE CommonPorts

\* "simple port detection", main.py line 148
PortsFor(host) ==
    IF Contains(host, ":") /\ ~StartsWith(host, <<"[">>)
    THEN << <<>> >>
    ELSE CommonPorts

\* the nested loop of lines 152-155, scheme-major
Candidates(schemes, host, ports) ==
    [k \in 1..(Len(schemes) * Len(ports)) |->
        LET sc == schemes[((k - 1) \div Len(ports)) + 1]
            p  == ports[((k - 1) % Len(ports)) + 1]
        IN  RStripChar(sc \o SchemeSep \o host \o p, "/")]

\* lines 157-162: first occurrences, in order
RECURSIVE Dedup(_, _)
Dedup(cands, seen) ==
    IF cands = <<>> THEN <<>>
    ELSE IF Head(cands) \in seen
         THEN Dedup(Tail(cands), seen)
         ELSE <<Head(cands)>> \o Dedup(Tail(cands), seen \cup {Head(cands)})

generate_endpoints(base_server) ==
    LET s == TrimAddress(base_server)
        host == HostOf(s)
    IN  Dedup(Candidates(SchemesOf(s), host, PortsFor(host)), {})

-----------------------------------------------------------------------------
(* Addresses given to generate_endpoints *)

HostNames == SeqsUpTo({"a", "."}, 1, MaxHostLen)
BracketHosts == { <<"[">> \o b \o <<"]">> : b \in SeqsUpTo({":", "1"}, 1, MaxHostLen) }
HostInputs == HostNames \cup BracketHosts
PortInputs == { <<":", "8">>, <<":", "8", "0", "8", "0">> }
SchemeInputs == { HTTP \o SchemeSep, HTTPS \o SchemeSep }
LeadInputs == { <<>>, <<" ">> }
TrailInputs == { <<>>, <<"/">>, <<"/", "/">>, <<"/", " ">> }

\* [scheme://]host[:port], with surrounding blanks and trailing slashes
Compose(lead, sch, h, p, tr) == lead \o sch \o h \o p \o tr

WellFormedAddresses ==
    { Compose(lead, sch, h, p, tr) :
        lead \in LeadInputs, sch \in SchemeInputs \cup {<<>>},
        h \in HostInputs, p \in PortInputs \cup {<<>>}, tr \in TrailInputs }

\* anything else a user can type
JunkAddresses == SeqsUpTo({"a", ":", "/", "[", " "}, 0, MaxJunkLen)
JunkWithScheme == { sch \o j : sch \in SchemeInputs, j \in JunkAddresses }

AddressInputs == WellFormedAddresses \cup JunkAddresses \cup JunkWithScheme

-----------------------------------------------------------------------------
(* parse_m3u_to_json *)

NL == "\n"
QUOTE == "\""

LowerLetters ==
    <<"a", "b", "c", "d", "e", "f", "g", "h", "i", "j", "k", "l", "m",
      "n", "o", "p", "q", "r", "s", "t", "u", "v", "w", "x", "y", "z">>
UpperLetters ==
    <<"A", "B", "C", "D", "E", "F", "G", "H", "I", "J", "K", "L", "M",
      "N", "O", "P", "Q", "R", "S", "T", "U", "V", "W", "X", "Y", "Z">>

UpperOf ==
    [c \in { LowerLetters[n] : n \in 1..26 } |->
        UpperLetters[CHOOSE n \in 1..26 : LowerLetters[n] = c]]
LowerOf ==
    [c \in { UpperLetters[n] : n \in 1..26 } |->
        LowerLetters[CHOOSE n \in 1..26 : UpperLetters[n] = c]]

\* str.upper()
Upper(s) == [k \in 1..Len(s) |-> IF s[k] \in DOMAIN UpperOf THEN UpperOf[s[k]] ELSE s[k]]
\* str.lower()
Lower(s) == [k \in 1..Len(s) |-> IF s[k] \in DOMAIN LowerOf THEN LowerOf[s[k]] ELSE s[k]]

Digits == {"0", "1", "2", "3", "4", "5", "6", "7", "8", "9"}
Letters == DOMAIN UpperOf \cup { UpperOf[c] : c \in DOMAIN UpperOf }
\* the class [a-zA-Z0-9\-_] of the attribute regex
KeyChars == Letters \cup Digits \cup {"-", "_"}
\* the class [-0-9] of the duration regex
DurChars == Digits \cup {"-"}

EXTINF == <<"#", "E", "X", "T", "I", "N", "F">>

\* str.splitlines() for "\n" line ends: no empty last line after a final "\n"
RECURSIVE SplitLines(_)
SplitLines(text) ==
    IF text = <<>> THEN <<>>
    ELSE IF ~Contains(text, NL) THEN <<text>>
    ELSE LET k == CHOOSE n \in 1..Len(text) :
                    text[n] = NL /\ \A m \in 1..(n - 1) : text[m] # NL
         IN  <<SubSeq(text, 1, k - 1)>> \o SplitLines(SubSeq(text, k + 1, Len(text)))

\* index of the first c in s, 0 when there is none
FirstIndex(s, c) ==
    IF Contains(s, c)
    THEN CHOOSE n \in 1..Len(s) : s[n] = c /\ \A m \in 1..(n - 1) : s[m] # c
    ELSE 0

\* parts = ln.split(",", 1): header, and the stripped title ("" without a comma)
HeaderOf(ln) ==
    IF FirstIndex(ln, ",") = 0 THEN ln ELSE SubSeq(ln, 1, FirstIndex(ln, ",") - 1)
TitleOf(ln) ==
    IF FirstIndex(ln, ",") = 0 THEN <<>>
    ELSE Strip(SubSeq(ln, FirstIndex(ln, ",") + 1, Len(ln)))

\* the longest prefix of s made of characters of class
RECURSIVE TakeWhile(_, _)
TakeWhile(s, class) ==
    IF s # <<>> /\ Head(s) \in class
    THEN <<Head(s)>> \o TakeWhile(Tail(s), class)
    ELSE <<>>

\* re.match(r'#EXTINF:([-0-9]+)', header, re.IGNORECASE): group 1, or ""
DurationOf(header) ==
    IF StartsWith(Upper(header), EXTINF \o <<":">>)
    THEN TakeWhile(SubSeq(header, Len(EXTINF) + 2, Len(header)), DurChars)
    ELSE <<>>

\* a match of ([a-zA-Z0-9\-_]+?)="(.*?)" that starts at position p of s:
\* the key runs from p to the first '=', which a '"' follows, and the value
\* runs to the next '"'
MatchAt(s, p) ==
    LET rest == SubSeq(s, p, Len(s))
        key == TakeWhile(rest, KeyChars)
        q == p + Len(key)
        after == SubSeq(s, q + 2, Len(s))
    IN  IF /\ key # <<>>
           /\ q + 1 <= Len(s)
           /\ s[q] = "="
           /\ s[q + 1] = QUOTE
           /\ Contains(after, QUOTE)
        THEN [ok |-> TRUE, key |-> key,
              value |-> SubSeq(after, 1, FirstIndex(after, QUOTE) - 1),
              next |-> q + 2 + FirstIndex(after, QUOTE)]
        ELSE [ok |-> FALSE, key |-> <<>>, value |-> <<>>, next |-> p + 1]

\* re.findall: leftmost matches, scanning on from the end of each match
RECURSIVE FindAll(_, _)
FindAll(s, p) ==
    IF p > Len(s) THEN <<>>
    ELSE LET m == MatchAt(s, p)
         IN  IF m.ok
             THEN <<[key |-> m.key, value |-> m.value]>> \o FindAll(s, m.next)
             ELSE FindAll(s, p + 1)

\* a mapping in which a key keeps the value of its first pair
RECURSIVE DictOf_KeepFirst(_, _)
DictOf_KeepFirst(pairs, acc) ==
    IF pairs = <<>> THEN acc
    ELSE LET kv == Head(pairs)
         IN  IF \E n \in 1..Len(acc) : acc[n].key = kv.key
             THEN DictOf_KeepFirst(Tail(pairs), acc)
             ELSE DictOf_KeepFirst(Tail(pairs), Append(acc, kv))

\* dict(pairs): a key keeps the position of its first pair and the value of its last
RECURSIVE DictOf(_, _)
DictOf(pairs, acc) ==
    IF pairs = <<>> THEN acc
    ELSE LET kv == Head(pairs)
         IN  IF \E n \in 1..Len(acc) : acc[n].key = kv.key
             THEN DictOf(Tail(pairs),
                         [n \in 1..Len(acc) |->
                             IF acc[n].key = kv.key THEN kv ELSE acc[n]])
             ELSE DictOf(Tail(pairs), Append(acc, kv))

AttrsOf(header) == DictOf(FindAll(header, 1), <<>>)

IsExtinf(ln) == StartsWith(Upper(ln), EXTINF)

\* lines 379-387: the inner loop, from j; the url found and the final j
RECURSIVE Lookahead(_, _)
Lookahead(ls, j) ==
    IF j > Len(ls) THEN [url |-> <<>>, j |-> j]
    ELSE LET candidate == Strip(ls[j])
         IN  IF candidate = <<>> \/ StartsWith(candidate, <<"#">>)
             THEN Lookahead(ls, j + 1)
             ELSE [url |-> candidate, j |-> j]

\* lines 368-394: the record of the #EXTINF line ln with the url found
ChannelOf(ln, url) ==
    [title |-> TitleOf(ln),
     duration |-> DurationOf(HeaderOf(ln)),
     attrs |-> AttrsOf(HeaderOf(ln)),
     url |-> url,
     raw_extinf |-> ln]

\* texts: up to MaxLines lines, each ended by "\n" or the last one not
LineInputs ==
    { <<>>,
      <<" ">>,
      <<"#", "E", "X", "T", "I", "N", "F", ":", "-", "1", " ",
        "k", "=", QUOTE, "v", QUOTE, ",", "A">>,
      <<" ", "#", "e", "x", "t", "i", "n", "f", ":", "5", ",", "B">>,
      <<"#", "x">>,
      <<"u">>,
      <<" ", "v", " ">> }

RECURSIVE JoinLines(_)
JoinLines(ls) ==
    IF ls = <<>> THEN <<>> ELSE Head(ls) \o <<NL>> \o JoinLines(Tail(ls))

TextInputs ==
    LET joined == { JoinLines(ls) : ls \in SeqsUpTo(LineInputs, 0, MaxLines) }
    IN  joined \cup { SubSeq(t, 1, Len(t) - 1) : t \in joined \ {<<>>} }

PInit ==
    /\ m3u_text \in TextInputs
    /\ lines = <<>>
    /\ i = 1
    /\ channels = <<>>
    /\ ppc = "call"
    /\ EndpointsIdle
    /\ ProbeIdle
    /\ ToolsIdle

\* line 353-355
ParseStart ==
    /\ ppc = "call"
    /\ lines' = SplitLines(m3u_text)
    /\ i' = 1
    /\ channels' = <<>>
    /\ ppc' = "loop"
    /\ UNCHANGED <<m3u_text, endpointVars, probeVars, toolVars>>

\* lines 364-366: a blank line
ParseBlank ==
    /\ ppc = "loop"
    /\ i <= Len(lines)
    /\ Strip(lines[i]) = <<>>
    /\ i' = i + 1
    /\ UNCHANGED <<m3u_text, lines, channels, ppc, endpointVars, probeVars, toolVars>>

\* lines 367, 379-387, 396: on an #EXTINF line the index jumps past the
\* line the lookahead stopped at
ExtinfIndex ==
    /\ ppc = "loop"
    /\ i <= Len(lines)
    /\ Strip(lines[i]) # <<>>
    /\ IsExtinf(Strip(lines[i]))
    /\ i' = Lookahead(lines, i + 1).j + 1

\* lines 367-398: an #EXTINF line, its lookahead, and the jump past it
ParseExtinf ==
    /\ ExtinfIndex
    /\ channels' = Append(channels,
                          ChannelOf(Strip(lines[i]), Lookahead(lines, i + 1).url))
    /\ UNCHANGED <<m3u_text, lines, ppc, endpointVars, probeVars, toolVars>>

\* a loop that does not step over a line it has no use for
ParseOther_Stay ==
    /\ ppc = "loop"
    /\ i <= Len(lines)
    /\ Strip(lines[i]) # <<>>
    /\ ~IsExtinf(Strip(lines[i]))
    /\ i' = i
    /\ UNCHANGED <<m3u_text, lines, channels, ppc, endpointVars, probeVars, toolVars>>

\* lines 399-400: any other line
ParseOther ==
    /\ ppc = "loop"
    /\ i <= Len(lines)
    /\ Strip(lines[i]) # <<>>
    /\ ~IsExtinf(Strip(lines[i]))
    /\ i' = i + 1
    /\ UNCHANGED <<m3u_text, lines, channels, ppc, endpointVars, probeVars, toolVars>>

\* line 358 false, line 405
ParseReturn ==
    /\ ppc = "loop"
    /\ i > Len(lines)
    /\ ppc' = "done"
    /\ UNCHANGED <<m3u_text, lines, i, channels, endpointVars, probeVars, toolVars>>

PNext == ParseStart \/ ParseBlank \/ ParseExtinf \/ ParseOther \/ ParseReturn

SpecParse == PInit /\ [][PNext]_vars

\* before the call: no text yet
PRInit ==
    /\ m3u_text = <<>>
    /\ lines = <<>>
    /\ i = 1
    /\ channels = <<>>
    /\ ppc = "input"
    /\ EndpointsIdle
    /\ ProbeIdle
    /\ ToolsIdle

\* the caller passes a text
ParseInput ==
    /\ ppc = "input"
    /\ m3u_text' \in TextInputs
    /\ ppc' = "call"
    /\ UNCHANGED <<lines, i, channels, endpointVars, probeVars, toolVars>>

PRNext == ParseInput \/ ParseStart \/ ParseBlank \/ ParseExtinf \/ ParseOther \/ ParseReturn

\* the call runs on: the interpreter always takes the next step of the loop.
\* The #EXTINF step is a ParseExtinf step exactly when the index moves as
\* ExtinfIndex says, so its fairness is stated on the index.
SpecParseRuns ==
    /\ PRInit
    /\ [][PRNext]_vars
    /\ WF_vars(ParseInput \/ ParseStart \/ ParseBlank \/ ParseOther \/ ParseReturn)
    /\ WF_i(ExtinfIndex)

-----------------------------------------------------------------------------
(* parse_m3u_to_json on #EXTINF lines put together from pieces of a header *)

\* pieces of a header: whole pairs, an open pair, and single characters
HeaderPieces ==
    { <<"k", "=", QUOTE, "1", QUOTE>>,
      <<"k", "=", QUOTE, QUOTE>>,
      <<"-", "=", QUOTE, " ", QUOTE>>,
      <<"k", "=", QUOTE>>,
      <<"1">>, <<"-">>, <<" ">>, <<QUOTE>>, <<"=">>, <<",">>, <<"k">> }

RECURSIVE Concat(_)
Concat(pieces) == IF pieces = <<>> THEN <<>> ELSE Head(pieces) \o Concat(Tail(pieces))

\* how the line begins: the marker as written, in lower case, or with no colon
MarkerInputs == { EXTINF \o <<":">>, Lower(EXTINF) \o <<":">>, EXTINF \o <<" ">> }

\* what follows the line: nothing, or a url, a blank line and one more line
AfterInputs == { <<>>, <<NL, "u", NL, " ", NL, "x">> }

HeaderTexts ==
    { m \o Concat(ps) \o a :
        m \in MarkerInputs, ps \in SeqsUpTo(HeaderPieces, 0, MaxPieces), a \in AfterInputs }

HInit ==
    /\ m3u_text \in HeaderTexts
    /\ lines = <<>>
    /\ i = 1
    /\ channels = <<>>
    /\ ppc = "call"
    /\ EndpointsIdle
    /\ ProbeIdle
    /\ ToolsIdle

SpecHeader == HInit /\ [][PNext]_vars

-----------------------------------------------------------------------------
(* The playlist codec: parse as a function, filter and rebuild *)

\* lines 358-405 as a function of the lines: the records made from line idx on
RECURSIVE ParseFrom(_, _)
ParseFrom(ls, idx) ==
    IF idx > Len(ls) THEN <<>>
    ELSE LET ln == Strip(ls[idx])
         IN  IF ln # <<>> /\ IsExtinf(ln)
             THEN LET found == Lookahead(ls, idx + 1)
                  IN  <<ChannelOf(ln, found.url)>> \o ParseFrom(ls, found.j + 1)
             ELSE ParseFrom(ls, idx + 1)

parse_m3u_to_json(text) == ParseFrom(SplitLines(text), 1)

EXTM3U == <<"#", "E", "X", "T", "M", "3", "U">>
GROUP_TITLE == <<"g", "r", "o", "u", "p", "-", "t", "i", "t", "l", "e">>
TITLE == <<"t", "i", "t", "l", "e">>
GROUP == <<"g", "r", "o", "u", "p">>

\* safe_v = v.replace('"', "'")
SafeValue(v) == [n \in 1..Len(v) |-> IF v[n] = QUOTE THEN "'" ELSE v[n]]

\* the pairs joined with a comma
RECURSIVE AttrStr_CommaJoin(_)
AttrStr_CommaJoin(attrs) ==
    IF attrs = <<>> THEN <<>>
    ELSE Head(attrs).key \o <<"=", QUOTE>> \o SafeValue(Head(attrs).value) \o <<QUOTE>>
         \o (IF Len(attrs) > 1 THEN <<",">> \o AttrStr_CommaJoin(Tail(attrs)) ELSE <<>>)

\* attr_str = " ".join(f'{k}="{safe_v}"' for k, v in attrs.items())
RECURSIVE AttrStr(_)
AttrStr(attrs) ==
    IF attrs = <<>> THEN <<>>
    ELSE Head(attrs).key \o <<"=", QUOTE>> \o SafeValue(Head(attrs).value) \o <<QUOTE>>
         \o (IF Len(attrs) > 1 THEN <<" ">> \o AttrStr(Tail(attrs)) ELSE <<>>)

\* entry.get(key, default)
Get(entry, key, default) == IF key \in DOMAIN entry THEN entry[key] ELSE default

\* an #EXTINF line that keeps the space when there is no attribute
build_extinf_line_KeepSpace(entry) ==
    EXTINF \o <<":">> \o Get(entry, "duration", <<"-", "1">>) \o <<" ">>
           \o AttrStr(Get(entry, "attrs", <<>>))
           \o <<",">> \o Get(entry, "title", <<>>)

\* lines 445-458
build_extinf_line(entry) ==
    LET dur == Get(entry, "duration", <<"-", "1">>)
        attr_str == AttrStr(Get(entry, "attrs", <<>>))
        title == Get(entry, "title", <<>>)
    IN  IF attr_str # <<>>
        THEN EXTINF \o <<":">> \o dur \o <<" ">> \o attr_str \o <<",">> \o title
        ELSE EXTINF \o <<":">> \o dur \o <<",">> \o title

\* lines 468-471: two lines per record
RECURSIVE WriteRecords(_)
WriteRecords(chs) ==
    IF chs = <<>> THEN <<>>
    ELSE build_extinf_line(Head(chs)) \o <<NL>> \o Get(Head(chs), "url", <<>>) \o <<NL>>
         \o WriteRecords(Tail(chs))

\* the text a successful create_m3u_from_channels leaves in out_path
create_m3u_from_channels(chs) == EXTM3U \o <<NL>> \o WriteRecords(chs)

\* sub in s
IsSubstring(sub, s) ==
    \E p \in 0..(Len(s) - Len(sub)) : SubSeq(s, p + 1, p + Len(sub)) = sub

\* attrs.get(key, "")
AttrGet(attrs, key) ==
    IF \E n \in 1..Len(attrs) : attrs[n].key = key
    THEN attrs[CHOOSE n \in 1..Len(attrs) : attrs[n].key = key].value
    ELSE <<>>

\* lines 496-506: the text of the record the keyword is looked for in
FieldValue(ch, field) ==
    IF field = TITLE THEN ch.title
    ELSE IF field = GROUP THEN AttrGet(ch.attrs, GROUP_TITLE)
    ELSE AttrGet(ch.attrs, field)

\* a filter that puts each match in front of the earlier ones
RECURSIVE Reversed(_)
Reversed(s) == IF s = <<>> THEN <<>> ELSE Append(Reversed(Tail(s)), Head(s))

filter_channels_Prepend(chs, field, keyword) ==
    IF keyword = <<>> THEN chs
    ELSE LET kw == Lower(Strip(keyword))
         IN  Reversed(SelectSeq(chs, LAMBDA ch : IsSubstring(kw, Lower(FieldValue(ch, field)))))

\* the content of the list filter_channels returns
filter_channels(chs, field, keyword) ==
    IF keyword = <<>> THEN chs
    ELSE LET kw == Lower(Strip(keyword))
         IN  SelectSeq(chs, LAMBDA ch : IsSubstring(kw, Lower(FieldValue(ch, field))))

\* a filter that hands back its argument when there is nothing to filter
FilterCall_NoCopy(h, ref, field, keyword) ==
    IF keyword = <<>>
    THEN [heap |-> h, ref |-> ref]
    ELSE [heap |-> Append(h, filter_channels(h[ref], field, keyword)),
          ref |-> Len(h) + 1]

\* the call on the list object ref of heap h: channels[:] and out = [] are both
\* new list objects, and the argument is not written to
FilterCall(h, ref, field, keyword) ==
    [heap |-> Append(h, filter_channels(h[ref], field, keyword)),
     ref |-> Len(h) + 1]

-----------------------------------------------------------------------------
(* The diagnostics sink: save_debug_response *)

\* fname = f"{int(time.time())}_{server_name}_debug.txt"; path = DEBUG_DIR/fname
DebugPath(ts, server_name) == <<ts, server_name, "_debug.txt">>

\* the file written: the endpoint header line (the body follows it)
DebugFile(path, endpoint) == [path |-> path, endpoint |-> endpoint]

\* open(path, "w"): an existing file of that path is replaced
WriteFile(dir, file) == { f \in dir : f.path # file.path } \cup {file}

\* what one call does when time.time() reads ts:
\*   ensure_dirs() raises when the directories cannot be made ("raised");
\*   a failing open (disk "readonly") or a failing write (disk "full") is
\*   caught and None is returned ("none");
\*   otherwise the file is written and its path returned ("path").
SaveOutcome == IF disk = "nodirs" THEN "raised"
               ELSE IF disk \in {"readonly", "full"} THEN "none" ELSE "path"

\* the record of one call
SaveCall(server_name, endpoint, ts) ==
    [server_name |-> server_name, endpoint |-> endpoint,
     ts |-> IF disk = "nodirs" THEN now ELSE ts, outcome |-> SaveOutcome]

\* the clock readings a call can get: the last reading or later
ClockReadings == { ts \in now..MaxClock : ts <= now + 1 }

save_debug_response(server_name, endpoint, ts) ==
    /\ debug_calls' = Append(debug_calls, SaveCall(server_name, endpoint, ts))
    /\ now' = IF disk = "nodirs" THEN now ELSE ts
    /\ files' = IF disk \in {"ok", "full"}
                THEN WriteFile(files, DebugFile(DebugPath(ts, server_name), endpoint))
                ELSE files

\* the cap of line 172
DebugCap == 500000

\* A body is kept as its runs of equal characters, [ch, n] for n times ch, so
\* that texts longer than the cap can be sliced.
TextLen(runs) ==
    LET RECURSIVE Sum(_)
        Sum(rs) == IF rs = <<>> THEN 0 ELSE Head(rs).n + Sum(Tail(rs))
    IN  Sum(runs)

\* text[:k]
RECURSIVE Prefix(_, _)
Prefix(runs, k) ==
    IF runs = <<>> \/ k <= 0 THEN <<>>
    ELSE IF Head(runs).n <= k
         THEN <<Head(runs)>> \o Prefix(Tail(runs), k - Head(runs).n)
         ELSE <<[ch |-> Head(runs).ch, n |-> k]>>

\* a write of the whole body
Slice_NoCap(text) == text

\* response_text[:500000]
Slice(text) == Prefix(text, DebugCap)

\* the value the call hands back
SaveReturn(ts, server_name) ==
    IF SaveOutcome = "path" THEN [kind |-> "path", path |-> DebugPath(ts, server_name)]
    ELSE IF SaveOutcome = "none" THEN [kind |-> "None", path |-> <<>>]
    ELSE [kind |-> "raised", path |-> <<>>]

-----------------------------------------------------------------------------
(* request_with_client *)

\* what a call can return: the cloudscraper path answers, or raises and
\* requests is tried, which answers or raises; an exception comes back as a
\* value from the requests path only
RequestOutcomes(kinds) ==
    { [resp |-> "error", client |-> "requests"] } \cup
    { [resp |-> k, client |-> c] :
        k \in kinds,
        c \in IF HAS_CLOUDSCRAPER THEN {"cloudscraper", "requests"} ELSE {"requests"} }

-----------------------------------------------------------------------------
(* fetch_player_api_robust and fetch_playlist_robust *)

\* api_url = f"{base}/player_api.php?username={username}&password={password}"
ApiUrl(base) == base \o <<"/player_api.php?username=u&password=p">>
\* pl_url = f"{base}/get.php?username={username}&password={password}&type={m3u_type}"
PlaylistUrl(base) == base \o <<"/get.php?username=u&password=p&type=m3u_plus">>

\* requests answered with an HTTP response that did not end the probe
Answers == Cardinality({ k \in 1..Len(responses) : responses[k] # "error" })

ProbeAddresses == { <<"a">>, <<"a", ":", "8">> }

Init ==
    /\ HAS_CLOUDSCRAPER \in BOOLEAN
    /\ fn \in {"auth", "playlist"}
    /\ server_url \in ProbeAddresses
    /\ endpoints = <<>>
    /\ taken = 0
    /\ tried = <<>>
    /\ responses = <<>>
    /\ disk \in {"ok", "readonly", "nodirs"}
    /\ now = 0
    /\ files = {}
    /\ debug_calls = <<>>
    /\ pc = "call"
    /\ result = NoResult
    /\ EndpointsIdle
    /\ ParseIdle
    /\ ToolsIdle

\* lines 201-202 / 246
ProbeCall ==
    /\ pc = "call"
    /\ endpoints' = generate_endpoints(server_url)
    /\ taken' = 0
    /\ tried' = <<>>
    /\ pc' = "loop"
    /\ UNCHANGED <<HAS_CLOUDSCRAPER, fn, server_url, responses, disk, now, files,
                   debug_calls, result, endpointVars, parseVars, toolVars>>

\* the for loop takes the next candidate and request_with_client answers
\* with r; in fetch_player_api_robust the attempt is appended to tried
Attempt(url, r) ==
    /\ pc = "loop"
    /\ taken < Len(endpoints)
    /\ r.resp # "error" => Answers < MaxAnswers
    /\ taken' = taken + 1
    /\ responses' = Append(responses, r.resp)
    /\ tried' = IF fn = "auth"
                THEN Append(tried, [url |-> url, resp |-> r.resp, client |-> r.client])
                ELSE tried
    /\ UNCHANGED <<HAS_CLOUDSCRAPER, fn, server_url, endpoints, disk,
                   endpointVars, parseVars, toolVars>>

\* lines 210-213: the request raised; log and continue
AuthTransportError ==
    /\ fn = "auth"
    /\ \E r \in RequestOutcomes({}) :
        Attempt(ApiUrl(endpoints[taken + 1]), r)
    /\ UNCHANGED <<now, files, debug_calls, pc, result>>

\* a non-200 branch that only logs
AuthNon200_NoSave ==
    /\ fn = "auth"
    /\ \E r \in RequestOutcomes({"non200"}) :
        /\ r.resp = "non200"
        /\ Attempt(ApiUrl(endpoints[taken + 1]), r)
    /\ UNCHANGED <<now, files, debug_calls, pc, result>>

\* lines 215-227: status is not 200; the save is inside try/except, continue
AuthNon200 ==
    /\ fn = "auth"
    /\ \E r \in RequestOutcomes({"non200"}) :
        /\ r.resp = "non200"
        /\ Attempt(ApiUrl(endpoints[taken + 1]), r)
    /\ \E ts \in ClockReadings :
        save_debug_response("player_api_non200", ApiUrl(endpoints[taken + 1]), ts)
    /\ UNCHANGED <<pc, result>>

\* a success branch that records the result and goes on with the loop
AuthGoodJson_NoReturn ==
    /\ fn = "auth"
    /\ \E r \in RequestOutcomes({"json"}) :
        /\ r.resp = "json"
        /\ Attempt(ApiUrl(endpoints[taken + 1]), r)
        /\ result' = [ok |-> TRUE, endpoint |-> ApiUrl(endpoints[taken + 1]),
                      client |-> r.client, tried |-> <<>>]
    /\ pc' = "loop"
    /\ UNCHANGED <<now, files, debug_calls>>

\* lines 229-233: status 200 and resp.json() decodes; return success
AuthGoodJson ==
    /\ fn = "auth"
    /\ \E r \in RequestOutcomes({"json"}) :
        /\ r.resp = "json"
        /\ Attempt(ApiUrl(endpoints[taken + 1]), r)
        /\ result' = [ok |-> TRUE, endpoint |-> ApiUrl(endpoints[taken + 1]),
                      client |-> r.client, tried |-> <<>>]
    /\ pc' = "done"
    /\ UNCHANGED <<now, files, debug_calls>>

\* lines 234-240: resp.json() raised; the save is made in the except block,
\* outside any try, so what ensure_dirs raises leaves the function
AuthBadJson ==
    /\ fn = "auth"
    /\ \E r \in RequestOutcomes({"badjson"}) :
        /\ r.resp = "badjson"
        /\ Attempt(ApiUrl(endpoints[taken + 1]), r)
    /\ \E ts \in ClockReadings :
        save_debug_response("player_api_badjson", ApiUrl(endpoints[taken + 1]), ts)
    /\ pc' = IF SaveOutcome = "raised" THEN "raised" ELSE "loop"
    /\ UNCHANGED result

\* line 242: the loop is exhausted
AuthExhausted ==
    /\ fn = "auth"
    /\ pc = "loop"
    /\ taken = Len(endpoints)
    /\ result' = [ok |-> FALSE, endpoint |-> <<>>, client |-> "", tried |-> tried]
    /\ pc' = "done"
    /\ UNCHANGED <<HAS_CLOUDSCRAPER, fn, server_url, endpoints, taken, tried, responses,
                   disk, now, files, debug_calls, endpointVars, parseVars, toolVars>>

\* lines 253-256
PlaylistTransportError ==
    /\ fn = "playlist"
    /\ \E r \in RequestOutcomes({}) :
        Attempt(PlaylistUrl(endpoints[taken + 1]), r)
    /\ UNCHANGED <<now, files, debug_calls, pc, result>>

\* lines 257-270: the save is inside try/except
PlaylistNon200 ==
    /\ fn = "playlist"
    /\ \E r \in RequestOutcomes({"non200"}) :
        /\ r.resp = "non200"
        /\ Attempt(PlaylistUrl(endpoints[taken + 1]), r)
    /\ \E ts \in ClockReadings :
        save_debug_response("playlist_non200", PlaylistUrl(endpoints[taken + 1]), ts)
    /\ UNCHANGED <<pc, result>>

\* lines 273-317: streamed, decoded, and the text holds #EXTM3U
PlaylistM3U ==
    /\ fn = "playlist"
    /\ \E r \in RequestOutcomes({"m3u"}) :
        /\ r.resp = "m3u"
        /\ Attempt(PlaylistUrl(endpoints[taken + 1]), r)
        /\ result' = [ok |-> TRUE, endpoint |-> PlaylistUrl(endpoints[taken + 1]),
                      client |-> r.client, tried |-> <<>>]
    /\ pc' = "done"
    /\ UNCHANGED <<now, files, debug_calls>>

\* lines 318-323: no marker; the body is saved.  The save is inside the try of
\* line 273: when it raises, the handler of line 324 saves again under
\* "playlist_error" inside its own try, and the loop continues either way
PlaylistNonM3U ==
    /\ fn = "playlist"
    /\ \E r \in RequestOutcomes({"nonm3u"}) :
        /\ r.resp = "nonm3u"
        /\ Attempt(PlaylistUrl(endpoints[taken + 1]), r)
    /\ IF SaveOutcome = "raised"
       THEN /\ debug_calls' = debug_calls \o
                   << SaveCall("playlist_nonm3u", PlaylistUrl(endpoints[taken + 1]), now),
                      SaveCall("playlist_error", PlaylistUrl(endpoints[taken + 1]), now) >>
            /\ UNCHANGED <<now, files>>
       ELSE \E ts \in ClockReadings :
                save_debug_response("playlist_nonm3u", PlaylistUrl(endpoints[taken + 1]), ts)
    /\ UNCHANGED <<pc, result>>

\* lines 324-338: an exception while streaming.  The handler reads resp.text
\* inside its try: when the body can still be read ("streamerror") it is saved
\* under "playlist_error"; when the read raises as well ("streamdead") the
\* except clause of line 331 only prints.  The loop continues either way
PlaylistStreamError ==
    /\ fn = "playlist"
    /\ \E r \in RequestOutcomes({"streamerror", "streamdead"}) :
        /\ r.resp \in {"streamerror", "streamdead"}
        /\ Attempt(PlaylistUrl(endpoints[taken + 1]), r)
        /\ IF r.resp = "streamerror"
           THEN \E ts \in ClockReadings :
                    save_debug_response("playlist_error",
                                        PlaylistUrl(endpoints[taken + 1]), ts)
           ELSE UNCHANGED <<now, files, debug_calls>>
    /\ UNCHANGED <<pc, result>>

\* line 339
PlaylistExhausted ==
    /\ fn = "playlist"
    /\ pc = "loop"
    /\ taken = Len(endpoints)
    /\ result' = [ok |-> FALSE, endpoint |-> <<>>, client |-> "", tried |-> <<>>]
    /\ pc' = "done"
    /\ UNCHANGED <<HAS_CLOUDSCRAPER, fn, server_url, endpoints, taken, tried, responses,
                   disk, now, files, debug_calls, endpointVars, parseVars, toolVars>>

Next ==
    \/ ProbeCall
    \/ AuthTransportError
    \/ AuthNon200
    \/ AuthGoodJson
    \/ AuthBadJson
    \/ AuthExhausted
    \/ PlaylistTransportError
    \/ PlaylistNon200
    \/ PlaylistM3U
    \/ PlaylistNonM3U
    \/ PlaylistStreamError
    \/ PlaylistExhausted

Spec == Init /\ [][Next]_vars

-----------------------------------------------------------------------------
(* fetch_playlist_robust of src/xtream.py, on the answers the candidates gave *)

\* what the loop of src/xtream.py has come to: "loop", "done" or "raised", the
\* result, and the candidates save_debug_response was called for
XState(xpc, ok, endpoint, saved) ==
    [pc |-> xpc, ok |-> ok, endpoint |-> endpoint, saved |-> saved]

\* src/xtream.py 214-238 from candidate k on.  requests.get is called without
\* stream, so a body that breaks while it is read is an exception of the
\* request (219-222); a status other than 200 is only printed (223-226); the
\* save of line 233 is outside any try
RECURSIVE XLoop(_, _, _, _)
XLoop(eps, resps, k, saved) ==
    IF k > Len(resps)
    THEN XState(IF k > Len(eps) THEN "done" ELSE "loop", FALSE, <<>>, saved)
    ELSE IF resps[k] = "m3u"
    THEN XState("done", TRUE, PlaylistUrl(eps[k]), saved)
    ELSE IF resps[k] = "nonm3u"
    THEN IF SaveOutcome = "raised"
         THEN XState("raised", FALSE, <<>>, saved \cup {k})
         ELSE XLoop(eps, resps, k + 1, saved \cup {k})
    ELSE XLoop(eps, resps, k + 1, saved)

\* src/xtream.py 212-238
x_fetch_playlist_robust(eps, resps) == XLoop(eps, resps, 1, {})

-----------------------------------------------------------------------------
(* Specification of the endpoint generator *)

EInit ==
    /\ address \in AddressInputs
    /\ uniq = <<>>
    /\ epc = "call"
    /\ ParseIdle
    /\ ProbeIdle
    /\ ToolsIdle

GenerateEndpoints ==
    /\ epc = "call"
    /\ uniq' = generate_endpoints(address)
    /\ epc' = "done"
    /\ UNCHANGED <<address, parseVars, probeVars, toolVars>>

ENext == GenerateEndpoints

SpecEndpoints == EInit /\ [][ENext]_vars

-----------------------------------------------------------------------------
(* Specification of a playlist session: parse, filter, rebuild, parse again *)

CodecLineInputs ==
    { <<>>,
      <<"#", "E", "X", "T", "I", "N", "F", ":", "-", "1", " ",
        "g", "r", "o", "u", "p", "-", "t", "i", "t", "l", "e", "=", QUOTE, "A", "b", QUOTE,
        " ", "k", "=", QUOTE, "v", QUOTE, ",", "T", " ", "b">>,
      <<" ", "#", "e", "x", "t", "i", "n", "f", ":", "5", ",", "B">>,
      <<"#", "E", "X", "T", "I", "N", "F", ":", "1", "-", "2", " ",
        "k", "=", QUOTE, "a", "'", QUOTE, " ", "k", "=", QUOTE, "b", QUOTE, ",">>,
      <<"#", "x">>,
      <<"u">>,
      <<" ", "v", " ">> }

CodecTexts ==
    LET joined == { JoinLines(ls) : ls \in SeqsUpTo(CodecLineInputs, 0, MaxLines) }
    IN  joined \cup { SubSeq(t, 1, Len(t) - 1) : t \in joined \ {<<>>} }

FieldInputs == { TITLE, GROUP, <<"k">> }
KeywordInputs == { <<>>, <<"b">>, <<"A", "B">>, <<" ">>, <<" ", "b", " ">> }

CInit ==
    /\ m3u_text \in CodecTexts
    /\ lines = <<>>
    /\ i = 1
    /\ channels = <<>>
    /\ ppc = "idle"
    /\ heap = <<>>
    /\ arg_field = <<>>
    /\ arg_keyword = <<>>
    /\ filtered = 0
    /\ written = 0
    /\ out_text = <<>>
    /\ reparsed = <<>>
    /\ cpc = "call"
    /\ EndpointsIdle
    /\ ProbeIdle
    /\ RequestIdle
    /\ SinkIdle
    /\ StoreIdle

\* main.py line 769: channels = parse_m3u_to_json(text); the list is object 1
CodecParse ==
    /\ cpc = "call"
    /\ heap' = <<parse_m3u_to_json(m3u_text)>>
    /\ cpc' = "parsed"
    /\ UNCHANGED <<arg_field, arg_keyword, filtered, written, out_text, reparsed,
                   endpointVars, parseVars, probeVars,
                   requestVars, sinkVars, storeVars>>

\* main.py line 805: filtered = filter_channels(channels, field, keyword)
CodecFilter ==
    /\ cpc = "parsed"
    /\ \E f \in FieldInputs, k \in KeywordInputs :
        LET call == FilterCall(heap, 1, f, k)
        IN  /\ arg_field' = f
            /\ arg_keyword' = k
            /\ heap' = call.heap
            /\ filtered' = call.ref
    /\ cpc' = "filtered"
    /\ UNCHANGED <<written, out_text, reparsed, endpointVars, parseVars, probeVars,
                   requestVars, sinkVars, storeVars>>

\* create_m3u_from_channels on the parsed or on the filtered list: the file is
\* written and True returned
CodecRebuild ==
    /\ cpc \in {"parsed", "filtered"}
    /\ written' = IF cpc = "filtered" THEN filtered ELSE 1
    /\ out_text' = create_m3u_from_channels(heap[written'])
    /\ cpc' = "built"
    /\ UNCHANGED <<heap, arg_field, arg_keyword, filtered, reparsed,
                   endpointVars, parseVars, probeVars,
                   requestVars, sinkVars, storeVars>>

\* lines 474-476: the write raised; False is returned
CodecRebuildFails ==
    /\ cpc \in {"parsed", "filtered"}
    /\ written' = IF cpc = "filtered" THEN filtered ELSE 1
    /\ cpc' = "failed"
    /\ UNCHANGED <<heap, arg_field, arg_keyword, filtered, out_text, reparsed,
                   endpointVars, parseVars, probeVars,
                   requestVars, sinkVars, storeVars>>

\* the written file is parsed again
CodecReparse ==
    /\ cpc = "built"
    /\ reparsed' = parse_m3u_to_json(out_text)
    /\ cpc' = "done"
    /\ UNCHANGED <<heap, arg_field, arg_keyword, filtered, written, out_text,
                   endpointVars, parseVars, probeVars,
                   requestVars, sinkVars, storeVars>>

CNext == CodecParse \/ CodecFilter \/ CodecRebuild \/ CodecRebuildFails \/ CodecReparse

SpecCodec == CInit /\ [][CNext]_vars

-----------------------------------------------------------------------------
(* A playlist session on a saved JSON file: main.py lines 797-817 *)

\* a record of a playlist JSON file
JsonRecord(title, attrs, url) ==
    [title |-> title, duration |-> <<"-", "1">>, attrs |-> attrs, url |-> url,
     raw_extinf |-> EXTINF \o <<":", "-", "1", ",">> \o title]

\* the same with no url key
JsonRecordNoUrl(title, attrs) ==
    [title |-> title, duration |-> <<"-", "1">>, attrs |-> attrs,
     raw_extinf |-> EXTINF \o <<":", "-", "1", ",">> \o title]

JsonTitles == { <<"A">>, <<"B">> }
JsonAttrs == { <<>>, << [key |-> <<"k">>, value |-> <<"b">>] >> }
JsonUrls == { <<>>, <<"u">> }

JsonRecords ==
    { JsonRecord(t, a, u) : t \in JsonTitles, a \in JsonAttrs, u \in JsonUrls }
    \cup { JsonRecordNoUrl(<<"A">>, <<>>) }

\* what load_playlist_json can return: the lists of up to MaxRecords records
JsonLists == SeqsUpTo(JsonRecords, 0, MaxRecords)

JInit ==
    /\ m3u_text = <<>>
    /\ lines = <<>>
    /\ i = 1
    /\ channels = <<>>
    /\ ppc = "idle"
    /\ heap = <<>>
    /\ arg_field = <<>>
    /\ arg_keyword = <<>>
    /\ filtered = 0
    /\ written = 0
    /\ out_text = <<>>
    /\ reparsed = <<>>
    /\ cpc = "load"
    /\ EndpointsIdle
    /\ ProbeIdle
    /\ RequestIdle
    /\ SinkIdle
    /\ StoreIdle

\* main.py line 797: channels = load_playlist_json(path); the list is object 1
CodecLoad ==
    /\ cpc = "load"
    /\ \E loaded \in JsonLists : heap' = <<loaded>>
    /\ cpc' = "parsed"
    /\ UNCHANGED <<arg_field, arg_keyword, filtered, written, out_text, reparsed,
                   endpointVars, parseVars, probeVars,
                   requestVars, sinkVars, storeVars>>

\* lines 437-443, 798-800: the file cannot be read or is not JSON
CodecLoadFails ==
    /\ cpc = "load"
    /\ cpc' = "failed"
    /\ UNCHANGED <<heap, arg_field, arg_keyword, filtered, written, out_text, reparsed,
                   endpointVars, parseVars, probeVars,
                   requestVars, sinkVars, storeVars>>

JNext ==
    \/ CodecLoad
    \/ CodecLoadFails
    \/ CodecFilter
    \/ CodecRebuild
    \/ CodecRebuildFails
    \/ CodecReparse

SpecJson == JInit /\ [][JNext]_vars

-----------------------------------------------------------------------------
(* Specification of request_with_client, statement by statement *)

StatusInputs == {200, 404}

\* what a client call gives: a response object, or an exception raised
Response(status, client) == [kind |-> "response", status |-> status, by |-> client]
Raised(client) == [kind |-> "exception", status |-> 0, by |-> client]

\* the calls the probes make: the API url unstreamed, the playlist url streamed
RequestInputs ==
    LET bases == UNION { { generate_endpoints(a)[n] : n \in 1..Len(generate_endpoints(a)) } :
                            a \in ProbeAddresses }
    IN  { [endpoint |-> ApiUrl(b), stream |-> FALSE] : b \in bases } \cup
        { [endpoint |-> PlaylistUrl(b), stream |-> TRUE] : b \in bases }

RInit ==
    /\ HAS_CLOUDSCRAPER \in BOOLEAN
    /\ \E rq \in RequestInputs :
        /\ rq_endpoint = rq.endpoint
        /\ rq_stream = rq.stream
    /\ rq_calls = <<>>
    /\ rq_return = NoReturn
    /\ rq_pc = "call"
    /\ ProbeStopped
    /\ SinkEmpty
    /\ EndpointsIdle
    /\ ParseIdle
    /\ CodecIdle
    /\ SinkIdle
    /\ StoreIdle

\* line 185: if HAS_CLOUDSCRAPER
RequestCall ==
    /\ rq_pc = "call"
    /\ rq_pc' = IF HAS_CLOUDSCRAPER THEN "scraper" ELSE "requests"
    /\ UNCHANGED <<rq_endpoint, rq_stream, rq_calls, rq_return,
                   endpointVars, parseVars, probeVars, codecVars, sinkVars, storeVars>>

\* lines 187-189: scr.get(...) returned r; return (r, "cloudscraper")
ScraperReturns ==
    /\ rq_pc = "scraper"
    /\ \E status \in StatusInputs :
        /\ rq_calls' = Append(rq_calls, Response(status, "cloudscraper"))
        /\ rq_return' = [resp |-> Response(status, "cloudscraper"), client |-> "cloudscraper"]
    /\ rq_pc' = "done"
    /\ UNCHANGED <<rq_endpoint, rq_stream,
                   endpointVars, parseVars, probeVars, codecVars, sinkVars, storeVars>>

\* an except clause that returns what the bypass client raised
ScraperRaises_NoFallback ==
    /\ rq_pc = "scraper"
    /\ rq_calls' = Append(rq_calls, Raised("cloudscraper"))
    /\ rq_return' = [resp |-> Raised("cloudscraper"), client |-> "cloudscraper"]
    /\ rq_pc' = "done"
    /\ UNCHANGED <<rq_endpoint, rq_stream,
                   endpointVars, parseVars, probeVars, codecVars, sinkVars, storeVars>>

\* lines 190-192: create_scraper or scr.get raised; pass, on to requests
ScraperRaises ==
    /\ rq_pc = "scraper"
    /\ rq_calls' = Append(rq_calls, Raised("cloudscraper"))
    /\ rq_pc' = "requests"
    /\ UNCHANGED <<rq_endpoint, rq_stream, rq_return,
                   endpointVars, parseVars, probeVars, codecVars, sinkVars, storeVars>>

\* lines 193-195: requests.get(...) returned r; return (r, "requests")
RequestsReturns ==
    /\ rq_pc = "requests"
    /\ \E status \in StatusInputs :
        /\ rq_calls' = Append(rq_calls, Response(status, "requests"))
        /\ rq_return' = [resp |-> Response(status, "requests"), client |-> "requests"]
    /\ rq_pc' = "done"
    /\ UNCHANGED <<rq_endpoint, rq_stream,
                   endpointVars, parseVars, probeVars, codecVars, sinkVars, storeVars>>

\* lines 196-197: requests.get raised e; return (e, "requests")
RequestsRaises ==
    /\ rq_pc = "requests"
    /\ rq_calls' = Append(rq_calls, Raised("requests"))
    /\ rq_return' = [resp |-> Raised("requests"), client |-> "requests"]
    /\ rq_pc' = "done"
    /\ UNCHANGED <<rq_endpoint, rq_stream,
                   endpointVars, parseVars, probeVars, codecVars, sinkVars, storeVars>>

RNext ==
    \/ RequestCall
    \/ ScraperReturns
    \/ ScraperRaises
    \/ RequestsReturns
    \/ RequestsRaises

SpecRequest == RInit /\ [][RNext]_vars

-----------------------------------------------------------------------------
(* Specification of the diagnostics sink called alone *)

RunInputs == { [ch |-> c, n |-> k] :
                c \in {"a", "b"}, k \in {1, DebugCap - 1, DebugCap, DebugCap + 1} }

\* bodies of up to MaxRuns runs, neighbouring runs of different characters
BodyInputs ==
    { b \in SeqsUpTo(RunInputs, 0, MaxRuns) :
        \A n \in 1..(Len(b) - 1) : b[n].ch # b[n + 1].ch }

SinkLabels == { "player_api_badjson", "playlist_nonm3u" }
SinkEndpoint == ApiUrl(HTTP \o SchemeSep \o <<"a">>)

SInit ==
    /\ response_text \in BodyInputs
    /\ file_body = <<>>
    /\ sink_return = [kind |-> "none yet", path |-> <<>>]
    /\ spc = "call"
    /\ disk \in {"ok", "readonly", "full", "nodirs"}
    /\ now = 0
    /\ files = {}
    /\ debug_calls = <<>>
    /\ HAS_CLOUDSCRAPER = FALSE
    /\ ProbeStopped
    /\ EndpointsIdle
    /\ ParseIdle
    /\ CodecIdle
    /\ RequestIdle
    /\ StoreIdle

\* lines 165-176: one call.  On a full disk the file is opened and the header
\* written; the body write raises after none or some of the body
SinkSave ==
    /\ spc = "call"
    /\ \E label \in SinkLabels, ts \in ClockReadings :
        /\ save_debug_response(label, SinkEndpoint, ts)
        /\ sink_return' = SaveReturn(ts, label)
        /\ \E part \in {0, 1} :
            file_body' =
                IF disk = "ok"
                THEN (DebugPath(ts, label) :> Slice(response_text)) @@ file_body
                ELSE IF disk = "full"
                THEN (DebugPath(ts, label) :> Prefix(Slice(response_text), part)) @@ file_body
                ELSE file_body
    /\ spc' = IF SaveOutcome = "raised" THEN "raised" ELSE "done"
    /\ UNCHANGED <<response_text, HAS_CLOUDSCRAPER, fn, server_url, endpoints, taken,
                   tried, responses, disk, pc, result,
                   endpointVars, parseVars, codecVars, requestVars, storeVars>>

SNext == SinkSave

SpecSink == SInit /\ [][SNext]_vars

-----------------------------------------------------------------------------
(* The server store: ensure_dirs, load_servers, save_servers *)

\* SERVERS_FILE holds text that is not JSON (also: a file cut short)
Corrupt == [state |-> "corrupt", data |-> <<>>]
\* SERVERS_FILE holds the JSON of servers
Json(servers) == [state |-> "json", data |-> servers]

\* lines 75-80 on the file f and the file system fs: os.makedirs raises when a
\* directory cannot be made; a missing SERVERS_FILE is created holding [],
\* which raises when the file cannot be opened for writing, and leaves an empty
\* file when the write fails
ensure_dirs(f, fs) ==
    IF fs = "nodirs" THEN [raised |-> TRUE, file |-> f]
    ELSE IF f.state # "missing" THEN [raised |-> FALSE, file |-> f]
    ELSE IF fs = "unwritable" THEN [raised |-> TRUE, file |-> f]
    ELSE IF fs = "full" THEN [raised |-> TRUE, file |-> Corrupt]
    ELSE [raised |-> FALSE, file |-> Json(<<>>)]

\* lines 82-88: open(SERVERS_FILE, "r") is outside the try; json.load inside
load_servers(f, fs) ==
    LET e == ensure_dirs(f, fs)
    IN  IF e.raised \/ fs = "unreadable"
        THEN [kind |-> "raised", value |-> <<>>, file |-> e.file]
        ELSE IF e.file.state = "corrupt"
        THEN [kind |-> "returned", value |-> <<>>, file |-> e.file]
        ELSE [kind |-> "returned", value |-> e.file.data, file |-> e.file]

\* lines 90-93: nothing is caught; open(..., "w") empties the file before
\* json.dump writes
save_servers(servers, f, fs) ==
    LET e == ensure_dirs(f, fs)
    IN  IF e.raised \/ fs = "unwritable"
        THEN [kind |-> "raised", value |-> <<>>, file |-> e.file]
        ELSE IF fs = "full"
        THEN [kind |-> "raised", value |-> <<>>, file |-> Corrupt]
        ELSE [kind |-> "returned", value |-> <<>>, file |-> Json(servers)]

ServerNames == {"s1", "s2"}
\* the stored lists: up to MaxServers records
ServerLists == SeqsUpTo({ [name |-> s] : s \in ServerNames }, 0, MaxServers)

StInit ==
    /\ servers_file \in {Missing, Corrupt} \cup { Json(l) : l \in ServerLists }
    /\ store_fs \in {"ok", "nodirs", "unreadable", "unwritable", "full"}
    /\ st_op = "none"
    /\ st_arg = <<>>
    /\ st_return = NoStoreReturn
    /\ stpc = "call"
    /\ MenuIdle
    /\ EndpointsIdle
    /\ ParseIdle
    /\ ProbeIdle
    /\ CodecIdle
    /\ RequestIdle
    /\ SinkIdle

\* servers = load_servers(), as every menu operation begins
LoadServers ==
    /\ stpc \in {"call", "done"}
    /\ LET call == load_servers(servers_file, store_fs)
       IN  /\ servers_file' = call.file
           /\ st_return' = [kind |-> call.kind, value |-> call.value]
           /\ stpc' = IF call.kind = "raised" THEN "raised" ELSE "done"
    /\ st_op' = "load"
    /\ st_arg' = <<>>
    /\ UNCHANGED <<store_fs, menuVars, endpointVars, parseVars, probeVars, codecVars,
                   requestVars, sinkVars>>

\* save_servers(servers)
SaveServers ==
    /\ stpc \in {"call", "done"}
    /\ \E servers \in ServerLists :
        LET call == save_servers(servers, servers_file, store_fs)
        IN  /\ servers_file' = call.file
            /\ st_return' = [kind |-> call.kind, value |-> call.value]
            /\ stpc' = IF call.kind = "raised" THEN "raised" ELSE "done"
            /\ st_arg' = servers
    /\ st_op' = "save"
    /\ UNCHANGED <<store_fs, menuVars, endpointVars, parseVars, probeVars, codecVars,
                   requestVars, sinkVars>>

StNext == LoadServers \/ SaveServers

SpecStore == StInit /\ [][StNext]_vars

-----------------------------------------------------------------------------
(* The menu operations on the server store, run by two tool processes *)

\* what the store decodes to: load_servers gives [] for a file that is not JSON
Stored == IF servers_file.state = "json" THEN servers_file.data ELSE <<>>

\* resp.json() of the answer: a JSON object, or JSON of another type
NoData == [dict |-> TRUE, user_info |-> "{}", server_info |-> "{}"]
Info == [dict |-> TRUE, user_info |-> "u1", server_info |-> "i1"]
NotDict == [dict |-> FALSE, user_info |-> "{}", server_info |-> "{}"]

\* what a probe gives its caller: {"ok": False, ...}, an exception that left
\* the probe, or {"ok": True, "endpoint", "client", "data"}
Fail == [kind |-> "fail", endpoint |-> None, client |-> None, data |-> NoData]
Escaped == [kind |-> "raised", endpoint |-> None, client |-> None, data |-> NoData]
Ok(endpoint, client, data) ==
    [kind |-> "ok", endpoint |-> endpoint, client |-> client, data |-> data]

AuthResults == {Fail, Escaped, Ok("e1", "cloudscraper", Info),
                Ok("e2", "requests", NoData), Ok("e2", "requests", NotDict)}
PlaylistResults == {Fail, Escaped, Ok("e1", "cloudscraper", NoData),
                    Ok("e2", "requests", NoData)}

\* how an operation ends: "save" calls save_servers(servers), "return" returns
\* without it, "raised" is an exception that reaches the menu
Save(servers) == [kind |-> "save", servers |-> servers]
Return(servers) == [kind |-> "return", servers |-> servers]
Raise(servers) == [kind |-> "raised", servers |-> servers]

\* add_server under a lock: the new record is appended to what the store holds
add_server_Merge(servers, server) == Save(Append(Stored, server))

\* lines 530-531
add_server(servers, server) == Save(Append(servers, server))

\* lines 617-629: an empty input keeps the field
edit_server(servers, idx, name, password) ==
    LET s == servers[idx]
    IN  Save([servers EXCEPT ![idx] =
                 [s EXCEPT !.name = IF name = "" THEN s.name ELSE name,
                           !.password = IF password = "" THEN s.password
                                        ELSE password]])

\* lines 635-641
delete_server(servers, idx, confirm) ==
    IF confirm = "y"
    THEN Save([k \in 1..(Len(servers) - 1) |->
                  IF k < idx THEN servers[k] ELSE servers[k + 1]])
    ELSE Return(servers)

\* lines 652-654 and 660-664 (714-716 and 720-724 in refresh_all_servers):
\* the record after a probe that returned
Refreshed(s, res, t) ==
    IF res.kind = "fail"
    THEN [s EXCEPT !.last_endpoint = None, !.last_client = None, !.last_check = t]
    ELSE [s EXCEPT !.user_info = res.data.user_info,
                   !.server_info = res.data.server_info,
                   !.last_endpoint = res.endpoint, !.last_client = res.client,
                   !.last_check = t]

\* the probe raised, or lines 660 and 720: data.get on a value that is no dict
Breaks(res) == res.kind = "raised" \/ (res.kind = "ok" /\ ~res.data.dict)

\* lines 648-666
refresh_server(servers, idx, res, t) ==
    IF Breaks(res) THEN Raise(servers)
    ELSE Save([servers EXCEPT ![idx] = Refreshed(servers[idx], res, t)])

\* lines 675-694: wrote is whether the playlist and its JSON could be written
fetch_and_save_playlist(servers, idx, res, wrote, t) ==
    IF res.kind = "raised" THEN Raise(servers)
    ELSE IF res.kind = "fail" THEN Return(servers)
    ELSE IF ~wrote THEN Raise(servers)
    ELSE Save([servers EXCEPT ![idx] =
                  [servers[idx] EXCEPT !.last_check = t,
                                       !.last_endpoint = res.endpoint,
                                       !.last_client = res.client]])

\* lines 709-727: an exception in the loop leaves before save_servers
refresh_all_servers(servers, results, ts) ==
    IF \E k \in 1..Len(servers) : Breaks(results[k]) THEN Raise(servers)
    ELSE Save([k \in 1..Len(servers) |-> Refreshed(servers[k], results[k], ts[k])])

MenuOps == {"add_server", "edit_server", "delete_server", "refresh_server",
            "fetch_and_save_playlist", "refresh_all_servers"}
\* the operations that take idx
IndexedOps == {"edit_server", "delete_server", "refresh_server",
               "fetch_and_save_playlist"}
IndexInputs == {1, 2}
NameInputs == {"", "s3"}
PasswordInputs == {"", "q"}
ConfirmInputs == {"y", "n"}

\* int(time.time()): the clock does not go back
TimeReadings == { t \in clock..MaxTime : t <= clock + 1 }

\* a record refreshed with success, and one never probed
Known == [NewServer("s1", "a", 0) EXCEPT !.last_check = 0, !.last_endpoint = "e1",
              !.last_client = "cloudscraper", !.user_info = "u1", !.server_info = "i1"]
Fresh == NewServer("s2", "a", 0)
InitialStores == {Missing, Json(<<>>), Json(<<Known>>), Json(<<Known, Fresh>>)}

MInit ==
    /\ servers_file \in InitialStores
    /\ store_fs \in {"ok", "nodirs", "unreadable", "unwritable", "full"}
    /\ st_op = "none"
    /\ st_arg = <<>>
    /\ st_return = NoStoreReturn
    /\ stpc = "idle"
    /\ m_pc = [p \in Procs |-> "menu"]
    /\ m_op = [p \in Procs |-> "none"]
    /\ m_idx = [p \in Procs |-> 0]
    /\ m_servers = [p \in Procs |-> <<>>]
    /\ m_new = [p \in Procs |-> NoServer]
    /\ m_res = [p \in Procs |-> <<>>]
    /\ clock = 0
    /\ last_done = NoneDone
    /\ started = 0
    /\ EndpointsIdle
    /\ ParseIdle
    /\ ProbeIdle
    /\ CodecIdle
    /\ RequestIdle
    /\ SinkIdle

otherVars == <<store_fs, st_op, st_arg, st_return, stpc, endpointVars, parseVars,
               probeVars, codecVars, requestVars, sinkVars>>

\* the operation of process p begins: servers = load_servers() (529, 613, 633,
\* 644, 671, 702), then s = servers[idx] (IndexError when idx is past the end)
\* or the return of refresh_all_servers on an empty list (703-706).  add_server
\* reads its inputs and the clock before it loads (513-528).
MenuLoad(p) ==
    /\ m_pc[p] \in {"menu", "done"}
    /\ started < MaxOps
    /\ started' = started + 1
    /\ \E op \in MenuOps, idx \in IndexInputs, name \in NameInputs, t \in TimeReadings :
        LET call == load_servers(servers_file, store_fs)
            ends == IF call.kind = "raised" THEN "raised"
                    ELSE IF op \in IndexedOps /\ idx > Len(call.value) THEN "raised"
                    ELSE IF op = "refresh_all_servers" /\ call.value = <<>> THEN "done"
                    ELSE "loaded"
        IN  /\ op \in IndexedOps \/ idx = 1
            /\ op = "add_server" \/ (name = "" /\ t = clock)
            /\ servers_file' = call.file
            /\ m_op' = [m_op EXCEPT ![p] = op]
            /\ m_idx' = [m_idx EXCEPT ![p] = IF op \in IndexedOps THEN idx ELSE 0]
            /\ m_servers' = [m_servers EXCEPT ![p] = call.value]
            /\ m_new' = [m_new EXCEPT ![p] = IF op = "add_server"
                                              THEN NewServer(name, "a", t)
                                              ELSE NoServer]
            /\ m_res' = [m_res EXCEPT ![p] = <<>>]
            /\ clock' = t
            /\ m_pc' = [m_pc EXCEPT ![p] = ends]
            /\ last_done' = IF ends = "raised" THEN [proc |-> p, ended |-> "raised"]
                            ELSE IF ends = "done" THEN [proc |-> p, ended |-> "returned"]
                            ELSE last_done
    /\ UNCHANGED otherVars

\* the operation of process p ends as out says: save_servers(servers) is
\* called with the list the operation loaded and changed
Finish(p, out) ==
    /\ IF out.kind = "save"
       THEN LET call == save_servers(out.servers, servers_file, store_fs)
            IN  /\ servers_file' = call.file
                /\ m_pc' = [m_pc EXCEPT ![p] = IF call.kind = "raised" THEN "raised"
                                               ELSE "done"]
                /\ last_done' = [proc |-> p,
                                 ended |-> IF call.kind = "raised" THEN "save raised"
                                           ELSE "saved"]
       ELSE /\ m_pc' = [m_pc EXCEPT ![p] = IF out.kind = "raised" THEN "raised"
                                           ELSE "done"]
            /\ last_done' = [proc |-> p,
                             ended |-> IF out.kind = "raised" THEN "raised"
                                       ELSE "returned"]
            /\ UNCHANGED servers_file
    /\ UNCHANGED <<m_op, m_idx, m_servers, m_new, started, otherVars>>

AddServer(p) ==
    /\ m_pc[p] = "loaded" /\ m_op[p] = "add_server"
    /\ Finish(p, add_server(m_servers[p], m_new[p]))
    /\ UNCHANGED <<m_res, clock>>

EditServer(p) ==
    /\ m_pc[p] = "loaded" /\ m_op[p] = "edit_server"
    /\ \E name \in NameInputs, password \in PasswordInputs :
        Finish(p, edit_server(m_servers[p], m_idx[p], name, password))
    /\ UNCHANGED <<m_res, clock>>

DeleteServer(p) ==
    /\ m_pc[p] = "loaded" /\ m_op[p] = "delete_server"
    /\ \E confirm \in ConfirmInputs :
        Finish(p, delete_server(m_servers[p], m_idx[p], confirm))
    /\ UNCHANGED <<m_res, clock>>

RefreshServer(p) ==
    /\ m_pc[p] = "loaded" /\ m_op[p] = "refresh_server"
    /\ \E res \in AuthResults, t \in TimeReadings :
        /\ Breaks(res) => t = clock
        /\ m_res' = [m_res EXCEPT ![p] = <<res>>]
        /\ clock' = t
        /\ Finish(p, refresh_server(m_servers[p], m_idx[p], res, t))

FetchAndSavePlaylist(p) ==
    /\ m_pc[p] = "loaded" /\ m_op[p] = "fetch_and_save_playlist"
    /\ \E res \in PlaylistResults, wrote \in BOOLEAN, t \in TimeReadings :
        /\ (res.kind # "ok" \/ ~wrote) => t = clock
        /\ res.kind # "ok" => wrote
        /\ m_res' = [m_res EXCEPT ![p] = <<res>>]
        /\ clock' = t
        /\ Finish(p, fetch_and_save_playlist(m_servers[p], m_idx[p], res, wrote, t))

RefreshAllServers(p) ==
    /\ m_pc[p] = "loaded" /\ m_op[p] = "refresh_all_servers"
    /\ \E results \in [1..Len(m_servers[p]) -> AuthResults], t \in TimeReadings :
        /\ (\E k \in 1..Len(m_servers[p]) : Breaks(results[k])) => t = clock
        /\ m_res' = [m_res EXCEPT ![p] = results]
        /\ clock' = t
        /\ Finish(p, refresh_all_servers(m_servers[p], results,
                                         [k \in 1..Len(m_servers[p]) |-> t]))

MNext ==
    \E p \in Procs :
        \/ MenuLoad(p)
        \/ AddServer(p)
        \/ EditServer(p)
        \/ DeleteServer(p)
        \/ RefreshServer(p)
        \/ FetchAndSavePlaylist(p)
        \/ RefreshAllServers(p)

SpecMenu == MInit /\ [][MNext]_vars

-----------------------------------------------------------------------------
(* Properties of the probe engine and the diagnostics sink *)

CallPath(c) == DebugPath(c.ts, c.server_name)

\* the attempts of the authentication probe that got an HTTP response and failed
HttpFailures == SelectSeq(tried, LAMBDA e : e.resp \in {"non200", "badjson"})

\* the candidate list generate_endpoints returns for each address probed
GeneratedFor == [a \in ProbeAddresses |-> generate_endpoints(a)]

\* C1: fetch_player_api_robust requests the candidates in the order of
\* generate_endpoints, each at most once; a candidate answered with HTTP 200 and
\* decodable JSON is the last one requested, and success is returned for it;
\* success is returned for no other candidate.
C1_InOrderFirstSuccess ==
    (fn = "auth" /\ pc # "call") =>
        /\ Len(tried) = taken
        /\ taken <= Len(GeneratedFor[server_url])
        /\ \A k \in 1..Len(tried) :
            tried[k].url = ApiUrl(GeneratedFor[server_url][k])
        /\ \A j, k \in 1..Len(tried) : j # k => tried[j].url # tried[k].url
        /\ \A k \in 1..Len(tried) :
            tried[k].resp = "json" =>
                /\ k = Len(tried)
                /\ pc = "done"
                /\ result.ok
                /\ result.endpoint = tried[k].url
                /\ result.client = tried[k].client
        /\ (pc = "done" /\ result.ok) =>
                /\ Len(tried) >= 1
                /\ tried[Len(tried)].resp = "json"

C1_Witness ==
    /\ fn = "auth"
    /\ pc = "done"
    /\ result.ok
    /\ Len(endpoints) = 14
    /\ Len(tried) = 3
    /\ tried[1].resp = "error"
    /\ tried[2].resp = "non200"
    /\ result.endpoint = ApiUrl(endpoints[3])

\* C2 as stated: when the authentication probe has returned, the sink holds a
\* diagnostic for every attempt that failed (transport error, non-200, bad JSON).
C2_DiagnosticForEveryFailure ==
    (fn = "auth" /\ pc = "done" /\ disk = "ok") =>
        \A k \in 1..Len(responses) :
            responses[k] # "json" =>
                \E f \in files : f.endpoint = ApiUrl(endpoints[k])

\* C2 as amended: save_debug_response is called once, in candidate order, for
\* every attempt answered with a non-200 status or with a 200 body that is not
\* JSON, and for no other attempt (a transport error is only logged); on a
\* writable sink the file of each call is in the directory unless a later call
\* wrote the same path.  With A a transport error, B a 404 and C valid JSON the
\* result is success using C and the one diagnostic is B's.
C2_DiagnosticForEveryHttpFailure ==
    fn = "auth" =>
        /\ Len(debug_calls) = Len(HttpFailures)
        /\ \A k \in 1..Len(debug_calls) :
            /\ debug_calls[k].endpoint = HttpFailures[k].url
            /\ debug_calls[k].server_name =
                    IF HttpFailures[k].resp = "non200"
                    THEN "player_api_non200" ELSE "player_api_badjson"
            /\ (disk = "ok" /\ \A j \in (k + 1)..Len(debug_calls) :
                                    CallPath(debug_calls[j]) # CallPath(debug_calls[k])) =>
                    DebugFile(CallPath(debug_calls[k]), debug_calls[k].endpoint) \in files
        /\ (pc = "done" /\ responses = <<"error", "non200", "json">>) =>
            /\ result.ok
            /\ result.endpoint = ApiUrl(endpoints[3])
            /\ Len(debug_calls) = 1
            /\ debug_calls[1].endpoint = ApiUrl(endpoints[2])

C2_Witness ==
    /\ fn = "auth"
    /\ pc = "done"
    /\ disk = "ok"
    /\ responses = <<"error", "non200", "json">>
    /\ Cardinality(files) = 1

\* C3: fetch_player_api_robust never raises; it returns the aggregate failure
\* exactly when no candidate answered HTTP 200 with valid JSON, and then tried
\* holds one entry per candidate of generate_endpoints, in candidate order.
C3_FailureIffNoSuccess ==
    fn = "auth" =>
        /\ pc # "raised"
        /\ pc = "done" =>
            /\ ~result.ok <=> (\A k \in 1..Len(responses) : responses[k] # "json")
            /\ ~result.ok =>
                /\ Len(result.tried) = Len(endpoints)
                /\ \A k \in 1..Len(endpoints) :
                    result.tried[k].url = ApiUrl(endpoints[k])

\* C4: when every candidate of a playlist fetch answered HTTP 200 with a body
\* that lacks #EXTM3U, the fetch returns failure and the diagnostics directory
\* (writable) holds as many files as candidates were attempted.
C4_OneFilePerCandidate ==
    (/\ fn = "playlist"
     /\ pc = "done"
     /\ disk = "ok"
     /\ \A k \in 1..Len(responses) : responses[k] = "nonm3u") =>
        /\ ~result.ok
        /\ Cardinality(files) = Len(responses)

\* C5: no two calls of save_debug_response write to the same path.
C5_UniquePaths ==
    \A j, k \in 1..Len(debug_calls) :
        (/\ j # k
         /\ debug_calls[j].outcome = "path"
         /\ debug_calls[k].outcome = "path") =>
            CallPath(debug_calls[j]) # CallPath(debug_calls[k])

\* the candidates of the playlist fetch whose stream raised
StreamFailures ==
    { k \in 1..Len(responses) : responses[k] \in {"streamerror", "streamdead"} }

\* C17: in fetch_playlist_robust an exception raised while streaming or decoding
\* a candidate's response never reaches the caller; save_debug_response is
\* called for that candidate (and on a writable sink writes its file), the
\* candidate is not the one a success is returned for, and the loop goes on.
C17_StreamErrorPersisted ==
    fn = "playlist" =>
        /\ pc # "raised"
        /\ \A k \in StreamFailures :
            /\ \E n \in 1..Len(debug_calls) :
                /\ debug_calls[n].endpoint = PlaylistUrl(endpoints[k])
                /\ debug_calls[n].server_name = "playlist_error"
                /\ disk = "ok" => debug_calls[n].outcome = "path"
            /\ (pc = "done" /\ result.ok) => result.endpoint # PlaylistUrl(endpoints[k])
            /\ (pc = "done" /\ ~result.ok) => taken = Len(endpoints)

\* C18: when the sink cannot persist (the directories cannot be made, or the
\* file cannot be written) no probe raises: it goes on with the next candidate
\* and returns its normal result, success for a candidate that answered with
\* JSON or an M3U text, failure after the last candidate otherwise.
C18_PersistFailureNeverEscalates ==
    (disk \in {"readonly", "nodirs"}) =>
        /\ pc # "raised"
        /\ pc = "done" =>
            /\ result.ok <=> (\E k \in 1..Len(responses) : responses[k] \in {"json", "m3u"})
            /\ ~result.ok => taken = Len(endpoints)

-----------------------------------------------------------------------------
(* Properties of generate_endpoints *)

\* the port variants in the order the specification lists them
ListedPorts ==
    << <<>>,
       <<":", "8", "0">>,
       <<":", "8", "0", "8", "0">>,
       <<":", "8", "0", "0", "0">>,
       <<":", "8", "0", "8", "1">>,
       <<":", "8", "4", "4", "3">>,
       <<":", "4", "4", "3">> >>

NoDuplicates(list) ==
    \A j, k \in 1..Len(list) : j # k => list[j] # list[k]

OfScheme(url, sch) == StartsWith(url, sch \o SchemeSep)

\* the address, blanks removed, is sch:// followed by a non-empty host
CarriesScheme(a, sch) ==
    LET s == Strip(a)
    IN  /\ StartsWith(s, sch \o SchemeSep)
        /\ RStripChar(SubSeq(s, Len(sch) + Len(SchemeSep) + 1, Len(s)), "/") # <<>>

C7_ExplicitPortTwoCandidates ==
    \A lead \in LeadInputs, sch \in {HTTP, HTTPS}, given \in BOOLEAN,
       h \in HostInputs, p \in PortInputs, tr \in TrailInputs :
        (/\ epc = "done"
         /\ address = Compose(lead, IF given THEN sch \o SchemeSep ELSE <<>>, h, p, tr)
         /\ ~given => sch = HTTP) =>
            uniq = << sch \o SchemeSep \o h \o p,
                      (IF sch = HTTP THEN HTTPS ELSE HTTP) \o SchemeSep \o h \o p >>

\* C8: the result has no duplicates and no element ending in "/"; when the
\* address carries a scheme (sch:// followed by a host), candidates of both
\* schemes are present and every candidate of the given scheme precedes every
\* candidate of the opposite scheme.
C8_UniqueNoSlashSchemeOrder ==
    epc = "done" =>
        /\ NoDuplicates(uniq)
        /\ \A k \in 1..Len(uniq) :
            Len(uniq[k]) > 0 /\ uniq[k][Len(uniq[k])] # "/"
        /\ \A sch \in {HTTP, HTTPS} :
            CarriesScheme(address, sch) =>
                LET other == IF sch = HTTP THEN HTTPS ELSE HTTP
                IN  /\ \E k \in 1..Len(uniq) : OfScheme(uniq[k], sch)
                    /\ \E k \in 1..Len(uniq) : OfScheme(uniq[k], other)
                    /\ \A j, k \in 1..Len(uniq) :
                        (OfScheme(uniq[j], sch) /\ OfScheme(uniq[k], other)) => j < k

C8_Witness ==
    /\ epc = "done"
    /\ address = HTTPS \o SchemeSep \o <<"a">> \o <<"/", "/">>
    /\ Len(uniq) = 14
    /\ uniq[1] = HTTPS \o SchemeSep \o <<"a">>
    /\ uniq[8] = HTTP \o SchemeSep \o <<"a">>

-----------------------------------------------------------------------------
(* Properties of parse_m3u_to_json *)

\* the lines that begin a channel record, in input order
ExtinfLines(ls) == SelectSeq(ls, LAMBDA l : IsExtinf(Strip(l)))

\* the url the format gives the #EXTINF line before position j: the first
\* non-blank line from j on that does not start with "#", unless an #EXTINF
\* line or the end of the input comes first
RECURSIVE UrlBeforeNextExtinf(_, _)
UrlBeforeNextExtinf(ls, j) ==
    IF j > Len(ls) THEN <<>>
    ELSE LET candidate == Strip(ls[j])
         IN  IF IsExtinf(candidate) THEN <<>>
             ELSE IF candidate = <<>> \/ StartsWith(candidate, <<"#">>)
             THEN UrlBeforeNextExtinf(ls, j + 1)
             ELSE candidate

\* C9: the parser returns one record per line whose stripped, uppercased form
\* starts with #EXTINF: as many records as such lines, in the same order (the
\* k-th record keeps the k-th such line as raw_extinf), also when two #EXTINF
\* lines follow each other with no url line between them.
C9_OneRecordPerExtinf ==
    ppc = "done" =>
        /\ Len(channels) = Len(ExtinfLines(lines))
        /\ \A k \in 1..Len(channels) :
            channels[k].raw_extinf = Strip(ExtinfLines(lines)[k])

\* C10: the record made for the #EXTINF line at index i gets as url the first
\* non-blank line after it that does not start with "#" when that line comes
\* before the next #EXTINF line and before the end of the input, and the empty
\* string otherwise.
C10_UrlBeforeNextExtinf ==
    [][Len(channels') = Len(channels) + 1 =>
        channels'[Len(channels')].url = UrlBeforeNextExtinf(lines, i + 1)]_vars

-----------------------------------------------------------------------------
(* Properties of the playlist codec *)

\* equality of two records on the fields a rebuild keeps
SameFields(a, b) ==
    /\ a.duration = b.duration
    /\ a.title = b.title
    /\ a.url = b.url
    /\ a.attrs = b.attrs

SameRecords(xs, ys) ==
    /\ Len(xs) = Len(ys)
    /\ \A n \in 1..Len(xs) : SameFields(xs[n], ys[n])

\* C11: parsing the text create_m3u_from_channels writes for parse_m3u_to_json(T)
\* yields as many records as parse_m3u_to_json(T) has, equal to them position by
\* position on duration, title, url and attrs.
C11_RoundTrip ==
    (cpc = "done" /\ written = 1) => SameRecords(reparsed, heap[1])

C11_Witness ==
    /\ cpc = "done"
    /\ written = 1
    /\ Len(reparsed) = 2
    /\ Len(reparsed[1].attrs) = 2
    /\ reparsed[2].raw_extinf # heap[1][2].raw_extinf
    /\ reparsed[2].url = <<>>

\* the elements of ys at the positions S, in increasing position
RECURSIVE Pick(_, _, _)
Pick(ys, S, n) ==
    IF n > Len(ys) THEN <<>>
    ELSE (IF n \in S THEN <<ys[n]>> ELSE <<>>) \o Pick(ys, S, n + 1)

IsSubsequence(xs, ys) == \E S \in SUBSET (1..Len(ys)) : xs = Pick(ys, S, 1)

EndsWith(s, suffix) ==
    /\ Len(s) >= Len(suffix)
    /\ SubSeq(s, Len(s) - Len(suffix) + 1, Len(s)) = suffix

\* C12: filter_channels(parse(T), f, k) is a subsequence of parse(T) in the
\* original order; create_m3u_from_channels writes its records in that order
\* (after the #EXTM3U line, record n is the #EXTINF line 2n carrying its title
\* and the url line 2n+1); parsing the written text again yields the same
\* records (on duration, title, url, attrs) in the same order.
C12_OrderPreserved ==
    (filtered # 0) =>
        /\ IsSubsequence(heap[filtered], parse_m3u_to_json(m3u_text))
        /\ (cpc \in {"built", "done"} /\ written = filtered) =>
            LET ls == SplitLines(out_text)
            IN  /\ Len(ls) = 1 + 2 * Len(heap[filtered])
                /\ ls[1] = EXTM3U
                /\ \A n \in 1..Len(heap[filtered]) :
                    /\ StartsWith(ls[2 * n], EXTINF \o <<":">>)
                    /\ EndsWith(ls[2 * n], <<",">> \o heap[filtered][n].title)
                    /\ ls[2 * n + 1] = heap[filtered][n].url
        /\ (cpc = "done" /\ written = filtered) =>
            SameRecords(reparsed, heap[filtered])

C12_Witness ==
    /\ cpc = "done"
    /\ written = filtered
    /\ filtered # 0
    /\ arg_keyword = <<"b">>
    /\ arg_field = TITLE
    /\ Len(reparsed) = 2
    /\ reparsed[1].title # reparsed[2].title

\* C13: with an empty keyword filter_channels returns, for any field, a list
\* object other than its argument, with the argument's records in the
\* argument's order, and the argument still holds what the parser returned.
C13_EmptyKeywordCopies ==
    (filtered # 0 /\ arg_keyword = <<>>) =>
        /\ filtered # 1
        /\ heap[filtered] = heap[1]
        /\ heap[1] = parse_m3u_to_json(m3u_text)

C13_Witness ==
    /\ cpc = "filtered"
    /\ arg_keyword = <<>>
    /\ arg_field = GROUP
    /\ Len(heap[1]) = 2
    /\ Len(heap[filtered]) = 2

\* C14: filter_channels(records, "group", k) with a non-empty k returns exactly
\* the records whose group-title attribute contains k, as given, compared
\* case-insensitively.
C14_GroupSubstringOfKeywordAsGiven ==
    (filtered # 0 /\ arg_field = GROUP /\ arg_keyword # <<>>) =>
        heap[filtered] =
            SelectSeq(heap[1],
                      LAMBDA ch : IsSubstring(Lower(arg_keyword),
                                              Lower(AttrGet(ch.attrs, GROUP_TITLE))))

HasAttr(attrs, key) == \E n \in 1..Len(attrs) : attrs[n].key = key

\* C15: for a field other than "title" and "group" and a non-empty keyword
\* (also one made of whitespace only), every record returned has the attribute
\* of that name, and every record whose attribute of that name contains the
\* keyword, compared case-insensitively, is returned.
C15_MissingAttributeNoMatch ==
    (filtered # 0 /\ arg_field \notin {TITLE, GROUP} /\ arg_keyword # <<>>) =>
        /\ \A n \in 1..Len(heap[filtered]) :
            HasAttr(heap[filtered][n].attrs, arg_field)
        /\ \A n \in 1..Len(heap[1]) :
            (/\ HasAttr(heap[1][n].attrs, arg_field)
             /\ IsSubstring(Lower(arg_keyword), Lower(AttrGet(heap[1][n].attrs, arg_field)))) =>
                \E m \in 1..Len(heap[filtered]) : heap[filtered][m] = heap[1][n]

-----------------------------------------------------------------------------
(* Properties of request_with_client *)

\* C16: request_with_client never raises; the bypass client is called first
\* exactly when it is available; the plain client is called exactly when the
\* bypass client is unavailable or raised; a response of the bypass client, of
\* any status, is returned with "cloudscraper" and the plain client is not
\* called; what the plain client returns or raises is returned with "requests",
\* the exception as a value.
C16_NeverRaisesFallback ==
    /\ rq_pc # "raised"
    /\ rq_pc = "done" =>
        /\ Len(rq_calls) >= 1
        /\ (rq_calls[1].by = "cloudscraper") <=> HAS_CLOUDSCRAPER
        /\ (\E n \in 1..Len(rq_calls) : rq_calls[n].by = "requests") <=>
                (~HAS_CLOUDSCRAPER \/ rq_calls[1] = Raised("cloudscraper"))
        /\ \A n \in 2..Len(rq_calls) :
            /\ rq_calls[n].by = "requests"
            /\ rq_calls[n - 1] = Raised("cloudscraper")
        /\ Len(rq_calls) <= 2
        /\ rq_return.resp = rq_calls[Len(rq_calls)]
        /\ rq_return.client = rq_calls[Len(rq_calls)].by
        /\ rq_return.resp.kind = "exception" => rq_return.client = "requests"

C16_Witness ==
    /\ rq_pc = "done"
    /\ rq_stream
    /\ rq_calls = <<Raised("cloudscraper"), Raised("requests")>>
    /\ rq_return = [resp |-> Raised("requests"), client |-> "requests"]

-----------------------------------------------------------------------------
(* Properties of the diagnostics sink *)

\* p is the text t cut after some character
RECURSIVE IsPrefixOf(_, _)
IsPrefixOf(p, t) ==
    \/ p = <<>>
    \/ /\ t # <<>>
       /\ Head(p).ch = Head(t).ch
       /\ \/ Head(p).n = Head(t).n /\ IsPrefixOf(Tail(p), Tail(t))
          \/ Head(p).n < Head(t).n /\ Len(p) = 1

\* C19: the body part of a file save_debug_response wrote is the first
\* characters of the body given, 500,000 of them at most, and all of them up to
\* that number when the write succeeded; the call returns the path of the file
\* when the write succeeded and None when opening or writing the file failed.
C19_BodyCappedPathOrNone ==
    spc = "done" =>
        /\ \A path \in DOMAIN file_body :
            /\ IsPrefixOf(file_body[path], response_text)
            /\ TextLen(file_body[path]) <= 500000
        /\ disk = "ok" =>
            /\ sink_return.kind = "path"
            /\ sink_return.path \in DOMAIN file_body
            /\ \E f \in files : f.path = sink_return.path /\ f.endpoint = SinkEndpoint
            /\ TextLen(file_body[sink_return.path]) =
                    IF TextLen(response_text) < 500000
                    THEN TextLen(response_text) ELSE 500000
        /\ disk \in {"readonly", "full"} => sink_return.kind = "None"

C19_Witness ==
    /\ spc = "done"
    /\ disk = "ok"
    /\ response_text = <<[ch |-> "a", n |-> 499999], [ch |-> "b", n |-> 500001]>>
    /\ \E path \in DOMAIN file_body :
        file_body[path] = <<[ch |-> "a", n |-> 499999], [ch |-> "b", n |-> 1]>>

-----------------------------------------------------------------------------
(* Properties of the server store *)

\* C20: no failure to read or write the store reaches the caller: load_servers
\* and save_servers never raise, and load_servers returns the empty list when
\* SERVERS_FILE cannot be opened or does not hold JSON.
C20_StoreFailureContained ==
    /\ stpc # "raised"
    /\ (stpc = "done" /\ st_op = "load"
            /\ (store_fs = "unreadable" \/ servers_file.state = "corrupt")) =>
        st_return = [kind |-> "returned", value |-> <<>>]

-----------------------------------------------------------------------------
(* Properties of the menu operations on the server store *)

\* the records of a list
Records(servers) == { servers[k] : k \in 1..Len(servers) }

\* C21: the store is read-modify-write without locking.  What save_servers
\* leaves in the store is computed from the list its own operation loaded: a
\* new record is appended to that list, a deleted one is removed from it, and an
\* edit or a refresh of idx keeps every other position of it, whatever another
\* process has saved since the load.  So there is an interleaving of two
\* operations in which the update of one is absent from the final store.
C21_LastWriteWins ==
    \A p \in Procs :
        (last_done = [proc |-> p, ended |-> "saved"] /\ m_pc[p] = "done") =>
            LET mine == m_servers[p]
            IN  CASE m_op[p] = "add_server" -> Stored = Append(mine, m_new[p])
                  [] m_op[p] = "delete_server" ->
                        /\ Len(Stored) = Len(mine) - 1
                        /\ \A k \in 1..Len(Stored) :
                              Stored[k] = IF k < m_idx[p] THEN mine[k] ELSE mine[k + 1]
                  [] m_op[p] = "refresh_all_servers" ->
                        /\ Len(Stored) = Len(mine)
                        /\ \A k \in 1..Len(mine) :
                              /\ Stored[k].name = mine[k].name
                              /\ Stored[k].password = mine[k].password
                              /\ Stored[k].created_at = mine[k].created_at
                  [] OTHER ->
                        /\ Len(Stored) = Len(mine)
                        /\ \A k \in 1..Len(mine) : k # m_idx[p] => Stored[k] = mine[k]

\* two add_server operations have both saved with success, and the record of
\* one of them is not in the store
C21_Witness ==
    \E p, q \in Procs :
        /\ p # q
        /\ store_fs = "ok"
        /\ m_op[p] = "add_server" /\ m_op[q] = "add_server"
        /\ m_pc[p] = "done" /\ m_pc[q] = "done"
        /\ last_done = [proc |-> p, ended |-> "saved"]
        /\ m_new[p] \in Records(Stored)
        /\ m_new[q] \notin Records(Stored)

\* the operations that probe, the positions the operation of p probed, and
\* what the probe of position k returned
ProbeOps == {"refresh_server", "fetch_and_save_playlist", "refresh_all_servers"}
Probed(p) ==
    IF m_op[p] = "refresh_all_servers" THEN 1..Len(m_servers[p]) ELSE {m_idx[p]}
ResultFor(p, k) == IF m_op[p] = "refresh_all_servers" THEN m_res[p][k] ELSE m_res[p][1]

\* the operation of p has saved and p has started no other yet
SavedBy(p) == last_done = [proc |-> p, ended |-> "saved"] /\ m_pc[p] = "done"

\* C22: last_endpoint and last_client of a record hold the endpoint and the
\* client of its most recent successful probe: an operation that saves after
\* a successful probe of the record stores the endpoint and client of that
\* probe, and one that saves after a failed probe keeps the two fields as it
\* loaded them (so they are None only if no probe of the record ever succeeded).
C22_LastSuccessfulProbeKept ==
    \A p \in Procs :
        (SavedBy(p) /\ m_op[p] \in ProbeOps) =>
            \A k \in Probed(p) :
                IF ResultFor(p, k).kind = "ok"
                THEN /\ Stored[k].last_endpoint = ResultFor(p, k).endpoint
                     /\ Stored[k].last_client = ResultFor(p, k).client
                ELSE /\ Stored[k].last_endpoint = m_servers[p][k].last_endpoint
                     /\ Stored[k].last_client = m_servers[p][k].last_client

\* what is known of a server apart from the outcome of its last probe
SameKnown(a, b) ==
    /\ a.name = b.name /\ a.server_url = b.server_url
    /\ a.username = b.username /\ a.password = b.password
    /\ a.created_at = b.created_at
    /\ a.user_info = b.user_info /\ a.server_info = b.server_info

\* the step in which the operation of p ends, after the aggregate failure of
\* the probe of position k
EndsAfterFailure(p, k) ==
    /\ m_pc[p] = "loaded" /\ m_pc'[p] # "loaded"
    /\ m_op[p] \in ProbeOps
    /\ k \in Probed(p)
    /\ ResultFor(p, k)'.kind = "fail"

\* C28: a failed probe never changes what is known about a server.  When an
\* operation ends after an aggregate failure for a record, the store holds as
\* many records as the operation loaded, that record with its name,
\* server_url, username, password, created_at, user_info and server_info as
\* loaded, and (refresh_server, fetch_and_save_playlist) every other record as
\* loaded; a refresh has set last_endpoint and last_client to None and
\* last_check to a reading of the clock, a playlist fetch has left the store
\* as it was.
C28_FailedProbeFrame ==
    [][\A p \in Procs : \A k \in 1..Len(m_servers[p]) :
          EndsAfterFailure(p, k) =>
              IF m_op[p] = "fetch_and_save_playlist"
              THEN servers_file' = servers_file
              ELSE /\ Len(Stored') = Len(m_servers[p])
                   /\ SameKnown(Stored'[k], m_servers[p][k])
                   /\ Stored'[k].last_endpoint = None
                   /\ Stored'[k].last_client = None
                   /\ Stored'[k].last_check = clock'
                   /\ m_op[p] = "refresh_server" =>
                          \A j \in 1..Len(m_servers[p]) :
                              j # k => Stored'[j] = m_servers[p][j]]_vars

-----------------------------------------------------------------------------
(* Properties of the playlist fetch in src/main.py and src/xtream.py *)

\* the candidates save_debug_response was called for under the label
SavedAs(label) ==
    { k \in 1..taken : \E n \in 1..Len(debug_calls) :
        /\ debug_calls[n].server_name = label
        /\ debug_calls[n].endpoint = PlaylistUrl(endpoints[k]) }

\* the rule of the claim on the answers given so far: the loop is at xpc with
\* the result ok, endpoint, and has given the candidates of saved to the sink
MarkerRule(xpc, ok, endpoint, saved) ==
    /\ xpc # "raised"
    /\ ok <=> (xpc = "done" /\ responses # <<>> /\ responses[Len(responses)] = "m3u")
    /\ \A k \in 1..Len(responses) :
        /\ responses[k] = "m3u" =>
              /\ k = Len(responses)
              /\ ok /\ endpoint = PlaylistUrl(endpoints[k])
        /\ responses[k] = "nonm3u" =>
              /\ k \in saved
              /\ (xpc = "done" /\ ~ok) => Len(responses) = Len(endpoints)

\* fetch_playlist_robust of src/main.py follows the rule
MainMarkerRule ==
    (fn = "playlist" /\ pc # "call") =>
        MarkerRule(pc, result.ok, result.endpoint, SavedAs("playlist_nonm3u"))

\* fetch_playlist_robust of src/xtream.py follows the rule
XtreamMarkerRule ==
    (fn = "playlist" /\ pc # "call") =>
        LET x == x_fetch_playlist_robust(endpoints, responses)
        IN  MarkerRule(x.pc, x.ok, x.endpoint, x.saved)

\* C23: fetch_playlist_robust (src/main.py and src/xtream.py) returns success
\* for a candidate if and only if the candidate answered 200 with a body that
\* holds #EXTM3U; the success is for the first such candidate; a 200 answer
\* without the marker is given to save_debug_response and the next candidate
\* follows.
C23_SuccessIffMarker == MainMarkerRule /\ XtreamMarkerRule

\* the candidates src/main.py called save_debug_response for
SavedCandidates ==
    { k \in 1..taken : \E n \in 1..Len(debug_calls) :
        debug_calls[n].endpoint = PlaylistUrl(endpoints[k]) }

\* C30: src/main.py and src/xtream.py implement the same probe: for the same
\* answers of the candidates, fetch_playlist_robust of the two files ends the
\* same way, with the same ok flag and endpoint, and has called
\* save_debug_response for the same candidates.
C30_SameProbe ==
    (fn = "playlist" /\ pc \in {"done", "raised"}) =>
        LET x == x_fetch_playlist_robust(endpoints, responses)
        IN  /\ x.pc = pc
            /\ x.ok = result.ok
            /\ x.endpoint = result.endpoint
            /\ x.saved = SavedCandidates

-----------------------------------------------------------------------------
(* Properties of the written playlist and of the parsed fields *)

\* the k="v" pairs of attrs in their order, each after one space
RECURSIVE PairsText(_)
PairsText(attrs) ==
    IF attrs = <<>> THEN <<>>
    ELSE <<" ">> \o Head(attrs).key \o <<"=", QUOTE>> \o Head(attrs).value \o <<QUOTE>>
         \o PairsText(Tail(attrs))

\* C24: the text create_m3u_from_channels writes is the line #EXTM3U and then,
\* for each record in input order, exactly two lines: #EXTINF:{duration},
\* then each k="v" pair of attrs in insertion order after one space (nothing,
\* not even a space, when attrs is empty), then a comma and the title; and the
\* url of the record, an empty line when there is none.
C24_WrittenForm ==
    (cpc \in {"built", "done"}) =>
        LET recs == heap[written]
            ls == SplitLines(out_text)
        IN  /\ Len(ls) = 1 + 2 * Len(recs)
            /\ ls[1] = EXTM3U
            /\ \A n \in 1..Len(recs) :
                /\ ls[2 * n] = EXTINF \o <<":">> \o recs[n].duration
                                  \o PairsText(recs[n].attrs)
                                  \o <<",">> \o recs[n].title
                /\ ls[2 * n + 1] = recs[n].url

\* a text was written for a record with two attributes and one with none and
\* no url
C24_Witness ==
    /\ cpc = "built"
    /\ Len(heap[written]) = 2
    /\ Len(heap[written][1].attrs) = 2
    /\ heap[written][2].attrs = <<>>
    /\ heap[written][2].url = <<>>

\* the position after the run of key characters that starts at p in header h
KeyEnd(h, p) ==
    IF \E q \in p..Len(h) : h[q] \notin KeyChars
    THEN CHOOSE q \in p..Len(h) :
            h[q] \notin KeyChars /\ \A r \in p..(q - 1) : h[r] \in KeyChars
    ELSE Len(h) + 1

\* a text key="value" begins at p: a run of key characters that begins at p,
\* then =", then a closing double-quote somewhere after
PairAt(h, p) ==
    /\ h[p] \in KeyChars
    /\ p = 1 \/ h[p - 1] \notin KeyChars
    /\ KeyEnd(h, p) + 1 <= Len(h)
    /\ h[KeyEnd(h, p)] = "="
    /\ h[KeyEnd(h, p) + 1] = QUOTE
    /\ \E c \in (KeyEnd(h, p) + 2)..Len(h) : h[c] = QUOTE

\* the closing double-quote of the pair that begins at p: the next one
PairClose(h, p) ==
    CHOOSE c \in (KeyEnd(h, p) + 2)..Len(h) :
        h[c] = QUOTE /\ \A r \in (KeyEnd(h, p) + 2)..(c - 1) : h[r] # QUOTE

KeyAt(h, p) == SubSeq(h, p, KeyEnd(h, p) - 1)
ValueAt(h, p) == SubSeq(h, KeyEnd(h, p) + 2, PairClose(h, p) - 1)

\* the occurrences of key="value" in h, read from the left: a pair counts
\* unless it begins inside a pair that counts
Occurrences(h) ==
    LET counts[p \in 1..Len(h)] ==
            PairAt(h, p) /\ \A b \in 1..(p - 1) : counts[b] => PairClose(h, b) < p
    IN  { p \in 1..Len(h) : counts[p] }

Least(S) == CHOOSE x \in S : \A y \in S : x <= y
Greatest(S) == CHOOSE x \in S : \A y \in S : x >= y

\* attrs is what the claim says of the header h
AttrsRule(h, attrs) ==
    LET At(key) == { p \in Occurrences(h) : KeyAt(h, p) = key }
    IN  /\ \A n \in 1..Len(attrs) :
            /\ attrs[n].key # <<>>
            /\ \A c \in 1..Len(attrs[n].key) : attrs[n].key[c] \in KeyChars
            /\ \A c \in 1..Len(attrs[n].value) : attrs[n].value[c] # QUOTE
            /\ At(attrs[n].key) # {}
            /\ attrs[n].value = ValueAt(h, Greatest(At(attrs[n].key)))
        /\ \A p \in Occurrences(h) : \E n \in 1..Len(attrs) : attrs[n].key = KeyAt(h, p)
        /\ \A n, m \in 1..Len(attrs) :
            n < m => Least(At(attrs[n].key)) < Least(At(attrs[m].key))

\* C25: every record parse_m3u_to_json returns has attrs whose keys are
\* non-empty runs of [A-Za-z0-9_-] and whose values hold no double-quote; attrs
\* has a key for every key="value" occurrence of the header (the #EXTINF line
\* up to its first comma) and for nothing else, the keys in the order of their
\* first occurrences, each with the value of its last occurrence.
C25_AttrsOfHeader ==
    \A n \in 1..Len(channels) :
        AttrsRule(HeaderOf(channels[n].raw_extinf), channels[n].attrs)

\* a record whose first key occurs twice, a second key between the two
C25_Witness ==
    /\ ppc = "done"
    /\ Len(channels) = 1
    /\ channels[1].attrs = << [key |-> <<"k">>, value |-> <<>>],
                              [key |-> <<"-">>, value |-> <<" ">>] >>

\* an optional '-' and then one or more digits
SignedInteger(s) ==
    /\ s # <<>>
    /\ LET digits == IF Head(s) = "-" THEN Tail(s) ELSE s
       IN  /\ digits # <<>>
           /\ \A c \in 1..Len(digits) : digits[c] \in Digits

\* C26: the duration of every record is the empty string or a signed-integer
\* token, an optional single leading '-' followed by one or more digits; never
\* a string such as "--" or "1-2".
C26_DurationSignedInteger ==
    \A n \in 1..Len(channels) :
        channels[n].duration = <<>> \/ SignedInteger(channels[n].duration)

\* C27: rebuild is lossless in record count for any record list, not only for
\* parser output: parsing the text create_m3u_from_channels wrote for a list
\* loaded from a playlist JSON file (records with an empty or absent url at any
\* position included) yields as many records as were written, each with the
\* title and url of the record at the same position.
C27_RebuildKeepsEveryRecord ==
    cpc = "done" =>
        /\ Len(reparsed) = Len(heap[written])
        /\ \A n \in 1..Len(heap[written]) :
            /\ reparsed[n].title = heap[written][n].title
            /\ reparsed[n].url = Get(heap[written][n], "url", <<>>)

\* C29: parse_m3u_to_json terminates on every finite input: each iteration of
\* the outer loop moves the line index forward, by one, or on an #EXTINF line
\* to one past the position the url lookahead stopped at, which is beyond the
\* #EXTINF line; so no line is visited twice, and the function returns.
C29_Terminates ==
    /\ [][(ppc = "loop" /\ i <= Len(lines)) =>
             /\ ppc' = "loop"
             /\ \/ i' = i + 1
                \/ /\ IsExtinf(Strip(lines[i]))
                   /\ i' > i + 1
                   /\ i' <= Len(lines) + 2]_vars
    /\ <>(ppc = "done")

\* the call returned after a lookahead that ran to the end of a text of three
\* lines or more
C29_Witness ==
    /\ ppc = "done"
    /\ Len(lines) >= 3
    /\ channels # <<>>
    /\ i = Len(lines) + 2

====
